---- MODULE Spec2Model ----
(***************************************************************************)
(* Model of the import module of compass-import-export                     *)
(* (packages/compass-import-export/src/modules/import.ts): the redux       *)
(* reducer of the import state, and the thunks startImport, cancelImport,  *)
(* skipCSVAnalyze, loadTypes, loadCSVPreviewDocs, selectImportFileName,    *)
(* setDelimiter, openImport.  Every thunk is cut at its awaits: one action *)
(* per synchronous segment, the reducer calls of the segment included.     *)
(*                                                                         *)
(* importCSV / importJSON / analyzeCSVFields / listCSVFields are not part  *)
(* of the sources at hand; they are modelled from their contract           *)
(* (cooperative cancellation checked at each unit of work, per-document    *)
(* errors, stop-on-first-error).  _.throttle is modelled from lodash's     *)
(* leading+trailing semantics.                                             *)
(***************************************************************************)
EXTENDS Integers, Sequences, FiniteSets, TLC

\* ------------------------------------------------------------------ bounds
\* write runs (invocations of startImport) a behaviour may hold
MaxRuns == 2
\* documents in the source file, where several runs overlap
MaxDocs == 1
\* documents in the source file, where one run is followed document by document
MaxDocsOneRun == 6
\* preview/analysis loads (loadCSVPreviewDocs invocations) a behaviour may hold
MaxLoads == 2
\* chunks the analyzer reads from the file
MaxChunks == 2
\* documents in the source file of a run that overlaps an analysis
MaxDocsBeside == 2
\* documents in the source file, where the progress callbacks are followed
MaxDocsProgress == 3
\* columns of the CSV header, where the grouping of the header is followed
MaxColumns == 3

\* ------------------------------------------------------- program constants
\* errorCallback keeps only the first few errors in memory
MaxErrorsInMemory == 5

\* process-status constants (constants/process-status)
UNSPECIFIED == "UNSPECIFIED"
STARTED == "STARTED"
CANCELED == "CANCELED"
COMPLETED == "COMPLETED"
FAILED == "FAILED"

\* "undefined" for a handle held in state; run r's AbortController is r
NoHandle == 0

\* error values: the log-setup error, the error thrown by the importer, the
\* file-selection error; a per-document error is the document's index (>= 1)
SetupError == 0
ThrownError == -1
SelectError == -2

\* handles of the two throttled progress callbacks: nothing pending
NoProgress == -1

\* the length, in documents, of a source file that holds none
EmptyFile == 0

\* the files a user can select, and what guessFileType detects for each
CsvFile == "a.csv"
JsonFile == "c.json"
UnknownFile == "e.bin"
MissingFile == "missing.csv"
Files == {CsvFile, JsonFile, UnknownFile}
Delimiters == {",", ";"}

\* the data services the application connects; no data service is connected
ImportDataServices == {"ds1", "ds2"}
NoDataService == "null"

\* the namespaces the import modal is opened for; no namespace is set
CollectionNamespace == "db.a"
Namespaces == {CollectionNamespace, "db.b"}
NoNamespace == ""

VARIABLES
  importData,   \* the reducer's state (RootImportState.importData)
  run,          \* run[r]: the r-th invocation of startImport and its importer
  load,         \* load[a]: the a-th preview/analysis load and its analyzer
  dropCollection, \* the drop-collection store: its state and its listeners
  rootDataService, \* the data service held in the root state (state.dataService.dataService)
  ns,           \* the namespace held in the root state (state.ns)
  atlasLogin,   \* the Atlas login store's state (state.atlasLogin)
  atlasCalls    \* the Atlas login thunks under way and their abort signals

vars == <<importData, run, load, dropCollection, rootDataService, ns,
          atlasLogin, atlasCalls>>

Runs == 1..MaxRuns
Loads == 1..MaxLoads

\* ---------------------------------------------------------------- reducer
INITIAL_STATE ==
  [ isOpen |-> FALSE,
    isInProgressMessageOpen |-> FALSE,
    errors |-> <<>>,
    fileName |-> "",
    errorLogFilePath |-> "",
    fileIsMultilineJSON |-> FALSE,
    useHeaderLines |-> TRUE,
    status |-> UNSPECIFIED,
    fileStats |-> "",
    analyzeBytesProcessed |-> 0,
    analyzeBytesTotal |-> 0,
    delimiter |-> ",",
    stopOnErrors |-> FALSE,
    ignoreBlanks |-> TRUE,
    fields |-> <<>>,
    values |-> <<>>,
    previewLoaded |-> FALSE,
    exclude |-> <<>>,
    transform |-> <<>>,
    fileType |-> "",
    abortController |-> NoHandle,
    analyzeAbortController |-> NoHandle,
    analyzeResult |-> "",
    analyzeStatus |-> UNSPECIFIED,
    analyzeError |-> "" ]

ReduceFILE_SELECTED(state, delimiter, fileName, fileType, fileIsMultilineJSON) ==
  [state EXCEPT !.delimiter = delimiter,
                !.fileName = fileName,
                !.fileType = fileType,
                !.fileStats = fileName,
                !.fileIsMultilineJSON = fileIsMultilineJSON,
                !.status = UNSPECIFIED,
                !.errors = <<>>,
                !.abortController = NoHandle,
                !.analyzeAbortController = NoHandle,
                !.fields = <<>>]

ReduceSET_STOP_ON_ERRORS(state, stopOnErrors) ==
  [state EXCEPT !.stopOnErrors = stopOnErrors]

ReduceSET_IGNORE_BLANKS(state, ignoreBlanks) ==
  [state EXCEPT !.ignoreBlanks = ignoreBlanks]

ReduceSET_DELIMITER(state, delimiter) ==
  [state EXCEPT !.delimiter = delimiter]

\* faulty variant: the failed selection also forgets the file selected before
ReduceFILE_SELECT_ERRORForgetsFile(state, error) ==
  [state EXCEPT !.errors = <<error>>, !.fileName = "", !.fileType = ""]

ReduceFILE_SELECT_ERROR(state, error) ==
  [state EXCEPT !.errors = <<error>>]

ReduceFAILED(state, error) ==
  [state EXCEPT !.errors = <<error>>,
                !.status = FAILED,
                !.abortController = NoHandle]

ReduceSTARTED(state, abortController, errorLogFilePath) ==
  [state EXCEPT !.isOpen = FALSE,
                !.errors = <<>>,
                !.status = STARTED,
                !.abortController = abortController,
                !.errorLogFilePath = errorLogFilePath]

\* faulty variant: a run that recorded errors is stored as FAILED
ReduceFINISHEDFailsOnErrors(state, aborted, errors) ==
  [state EXCEPT !.status = IF aborted THEN CANCELED
                           ELSE IF errors # <<>> THEN FAILED ELSE COMPLETED,
                !.errors = errors,
                !.abortController = NoHandle]

\* faulty variant: the handle of the run that finished is left in state
ReduceFINISHEDKeepsHandle(state, aborted, errors) ==
  [state EXCEPT !.status = IF aborted THEN CANCELED ELSE COMPLETED,
                !.errors = errors]

ReduceFINISHED(state, aborted, errors) ==
  [state EXCEPT !.status = IF aborted THEN CANCELED ELSE COMPLETED,
                !.errors = errors,
                !.abortController = NoHandle]

\* CANCELED has no case in the reducer: it falls through to `return state`
ReduceCANCELED(state) == state

\* faulty variant: the modal is opened on the state as it is
ReduceOPENKeepsState(state) == [state EXCEPT !.isOpen = TRUE]

ReduceOPEN(state) == [INITIAL_STATE EXCEPT !.isOpen = TRUE]

ReduceCLOSE(state) == [state EXCEPT !.isOpen = FALSE]

ReduceOPEN_IN_PROGRESS_MESSAGE(state) ==
  [state EXCEPT !.isInProgressMessageOpen = TRUE]

ReduceCLOSE_IN_PROGRESS_MESSAGE(state) ==
  [state EXCEPT !.isInProgressMessageOpen = FALSE]

ReduceANALYZE_STARTED(state, abortController, analyzeBytesTotal) ==
  [state EXCEPT !.analyzeStatus = STARTED,
                !.analyzeAbortController = abortController,
                !.analyzeError = "",
                !.analyzeBytesProcessed = 0,
                !.analyzeBytesTotal = analyzeBytesTotal]

ReduceANALYZE_FINISHED(state, result) ==
  [state EXCEPT !.analyzeStatus = COMPLETED,
                !.analyzeAbortController = NoHandle,
                !.analyzeResult = result,
                !.analyzeError = ""]

ReduceANALYZE_FAILED(state, error) ==
  [state EXCEPT !.analyzeStatus = FAILED,
                !.analyzeAbortController = NoHandle,
                !.analyzeError = error]

ReduceANALYZE_CANCELLED(state) ==
  [state EXCEPT !.analyzeAbortController = NoHandle,
                !.analyzeError = ""]

ReduceANALYZE_PROGRESS(state, analyzeBytesProcessed) ==
  [state EXCEPT !.analyzeBytesProcessed = analyzeBytesProcessed]

\* the state part of DATA_SERVICE_DISCONNECTED (the two abort() calls are in
\* the action DataServiceDisconnected)
ReduceDATA_SERVICE_DISCONNECTED(state) ==
  [state EXCEPT !.analyzeAbortController = NoHandle,
                !.abortController = NoHandle,
                !.isOpen = FALSE]

\* ------------------------------------------------------- _.throttle(f, 1000)
\* A throttled callback is [armed, pending, delivered]: armed while lodash's
\* timer is set, pending the arguments of the last call the timer will deliver
\* on its trailing edge, delivered the arguments f was last invoked with.
NewThrottle == [armed |-> FALSE, pending |-> NoProgress, delivered |-> NoProgress]

\* a call while the timer is set only replaces the pending arguments.  A call
\* with no timer set is the leading edge, f is invoked at once and the timer
\* set; unless f was last invoked less than the wait ago (withinWait, after a
\* trailing edge), where the call is kept pending and the timer set.
ThrottleCall(t, v, withinWait) ==
  IF t.armed
    THEN [t EXCEPT !.pending = v]
  ELSE IF withinWait /\ t.delivered # NoProgress
    THEN [t EXCEPT !.armed = TRUE, !.pending = v]
    ELSE [armed |-> TRUE, pending |-> NoProgress, delivered |-> v]

\* faulty variant: a throttle without trailing edge, the pending arguments are dropped
ThrottleTrailingDropsPending(t) ==
  [armed |-> FALSE, pending |-> NoProgress, delivered |-> t.delivered]

\* the trailing edge (timer expiry, or flush() while the timer is set): f is
\* invoked with the pending arguments, if any, and the timer is cleared
ThrottleTrailing(t) ==
  [armed |-> FALSE,
   pending |-> NoProgress,
   delivered |-> IF t.pending # NoProgress THEN t.pending ELSE t.delivered]

\* flush(): nothing when no timer is set
ThrottleFlush(t) == IF t.armed THEN ThrottleTrailing(t) ELSE t

\* --------------------------------------------------------------- write runs
IdleRun ==
  [ pc |-> "idle",            \* idle, setup, importing, finished, failed, threw
    fileName |-> "",          \* state read at line 213-229
    fileType |-> "",
    delimiter |-> "",
    stopOnErrors |-> FALSE,
    exclude |-> <<>>,
    ignoreBlanks_ |-> FALSE,  \* the option as read from the state
    ignoreBlanks |-> FALSE,   \* the effective ignoreBlanks, line 231
    fields |-> <<>>,          \* the fields built at lines 233-239
    nDocs |-> 0,              \* documents in the source file
    aborted |-> FALSE,        \* abortController.signal.aborted
    log |-> "none",           \* errorLogWriteStream: none, open, closed
    errors |-> <<>>,          \* the in-memory errors array of the run
    docsProcessed |-> 0,
    docsWritten |-> 0,
    progress |-> NewThrottle, \* progressCallback
    rejectCause |-> "",       \* why the importer rejected: open, document
    dataService |-> NoDataService, \* state.dataService.dataService, line 217
    \* history, read by the properties only
    reported |-> <<>>,        \* every error reported to the run, in order
    cancelSeen |-> FALSE,     \* cancelImport ran while this run was importing
    lateProgress |-> FALSE,   \* progressCallback was invoked after the run's end
    tracked |-> 0,            \* 'Import Completed' events the run has emitted
    toasts |-> <<>>,          \* the outcome toasts the run has shown, in order
    emitted |-> 0 ]           \* 'import-finished' events the run has emitted

getErrorLogPath(fileName) == "import-" \o fileName \o ".log"

\* startImport, lines 233-239: the entries of transform whose name is not
\* among exclude
startImportFields(transform, exclude) ==
  SelectSeq(transform, LAMBDA entry : entry[1] \notin {exclude[i] : i \in DOMAIN exclude})

\* startImport, lines 213-240: what a run reads from the state when it
\* starts; n is the length of the file
ReadState(state, n) ==
  [IdleRun EXCEPT
     !.pc = "setup",
     !.fileName = state.fileName,
     !.fileType = state.fileType,
     !.delimiter = state.delimiter,
     !.stopOnErrors = state.stopOnErrors,
     !.exclude = state.exclude,
     !.ignoreBlanks_ = state.ignoreBlanks,
     !.ignoreBlanks = state.ignoreBlanks /\ state.fileType = "csv",
     !.fields = startImportFields(state.transform, state.exclude),
     !.dataService = rootDataService,
     !.nDocs = n]

\* faulty variant: the stopOnErrors option is not handed to the importer
startImportIgnoresStopOnErrors(r, n) ==
  /\ run[r].pc = "idle"
  /\ \A q \in Runs : q < r => run[q].pc # "idle"
  /\ run' = [run EXCEPT ![r] = [ReadState(importData, n) EXCEPT
               !.stopOnErrors = FALSE]]
  /\ UNCHANGED <<importData, load>>
  /\ UNCHANGED <<dropCollection, rootDataService, ns, atlasLogin, atlasCalls>>

\* faulty variant: ignoreBlanks is handed over as the option stands, whatever
\* the file type
startImportIgnoreBlanksAsSet(r, n) ==
  /\ run[r].pc = "idle"
  /\ \A q \in Runs : q < r => run[q].pc # "idle"
  /\ run' = [run EXCEPT ![r] = [ReadState(importData, n) EXCEPT
               !.ignoreBlanks = importData.ignoreBlanks]]
  /\ UNCHANGED <<importData, load>>
  /\ UNCHANGED <<dropCollection, rootDataService, ns, atlasLogin, atlasCalls>>

\* startImport, lines 211-247: the state is read, the input stream is created
\* and the thunk waits for getErrorLogPath.  n is the length of the file.
startImport(r, n) ==
  /\ run[r].pc = "idle"
  /\ \A q \in Runs : q < r => run[q].pc # "idle"
  /\ run' = [run EXCEPT ![r] = ReadState(importData, n)]
  /\ UNCHANGED <<importData, load>>
  /\ UNCHANGED <<dropCollection, rootDataService, ns, atlasLogin, atlasCalls>>

\* faulty variant: the error of a failed log setup is not kept
startImportStartedDropsSetupError(r, logCreated) ==
  /\ run[r].pc = "setup"
  /\ run' = [run EXCEPT
       ![r].pc = "importing",
       ![r].log = IF logCreated THEN "open" ELSE "none",
       ![r].errors = <<>>,
       ![r].reported = IF logCreated THEN <<>> ELSE <<SetupError>>]
  /\ importData' = ReduceSTARTED(importData, r,
       IF logCreated THEN getErrorLogPath(run[r].fileName) ELSE "")
  /\ UNCHANGED load
  /\ UNCHANGED <<dropCollection, rootDataService, ns, atlasLogin, atlasCalls>>

\* startImport, lines 247-347: the error log is created (or its creation
\* fails, and the error is the first of the run's errors), STARTED is
\* dispatched with a new AbortController and the importer is called.
startImportStarted(r, logCreated) ==
  /\ run[r].pc = "setup"
  /\ run' = [run EXCEPT
       ![r].pc = "importing",
       ![r].log = IF logCreated THEN "open" ELSE "none",
       ![r].errors = IF logCreated THEN <<>> ELSE <<SetupError>>,
       ![r].reported = IF logCreated THEN <<>> ELSE <<SetupError>>]
  /\ importData' = ReduceSTARTED(importData, r,
       IF logCreated THEN getErrorLogPath(run[r].fileName) ELSE "")
  /\ UNCHANGED load
  /\ UNCHANGED <<dropCollection, rootDataService, ns, atlasLogin, atlasCalls>>

\* faulty variant: off by one, a sixth error is kept
errorCallbackOffByOne(errors, err) ==
  IF Len(errors) <= MaxErrorsInMemory THEN Append(errors, err) ELSE errors

\* errorCallback, lines 294-302
errorCallback(errors, err) ==
  IF Len(errors) < MaxErrorsInMemory THEN Append(errors, err) ELSE errors

\* errorLogWriteStream?.close(), line 379
CloseLog(log) == IF log = "open" THEN "closed" ELSE log

\* faulty variant: a document counts as written when it is submitted, and as
\* processed only when the backing store has confirmed it
ImportDocumentCountsSubmitted(r, ok, withinWait) ==
  /\ run[r].pc = "importing"
  /\ ~run[r].aborted
  /\ run[r].docsProcessed < run[r].nDocs
  /\ ok \/ ~run[r].stopOnErrors
  /\ LET k == run[r].docsProcessed + 1 IN
     run' = [run EXCEPT
       ![r].docsProcessed = IF ok THEN k ELSE @,
       ![r].docsWritten = @ + 1,
       ![r].errors = IF ok THEN @ ELSE errorCallback(@, k),
       ![r].reported = IF ok THEN @ ELSE Append(@, k),
       ![r].progress = ThrottleCall(@, k, withinWait)]
  /\ UNCHANGED <<importData, load>>
  /\ UNCHANGED <<dropCollection, rootDataService, ns, atlasLogin, atlasCalls>>

\* ---- the importer (importCSV / importJSON), modelled from its contract ----
\* One unit of work: the signal is checked, then the next document is read,
\* transformed and written.  A document that fails is reported through
\* errorCallback and the run goes on (stopOnErrors = false); every unit of
\* work ends with a progress callback.
ImportDocument(r, ok, withinWait) ==
  /\ run[r].pc = "importing"
  /\ ~run[r].aborted
  /\ run[r].docsProcessed < run[r].nDocs
  /\ ok \/ ~run[r].stopOnErrors
  /\ LET k == run[r].docsProcessed + 1 IN
     run' = [run EXCEPT
       ![r].docsProcessed = k,
       ![r].docsWritten = IF ok THEN @ + 1 ELSE @,
       ![r].errors = IF ok THEN @ ELSE errorCallback(@, k),
       ![r].reported = IF ok THEN @ ELSE Append(@, k),
       ![r].progress = ThrottleCall(@, k, withinWait)]
  /\ UNCHANGED <<importData, load>>
  /\ UNCHANGED <<dropCollection, rootDataService, ns, atlasLogin, atlasCalls>>

\* the importer's promise resolves: at the checkpoint after an abort (with
\* aborted = true and the partial counts), or at the end of the file
ImporterResolves(r) ==
  /\ run[r].pc = "importing"
  /\ run[r].aborted \/ run[r].docsProcessed = run[r].nDocs

\* the importer's promise rejects: the source cannot be opened (before any
\* document), or a document fails under stopOnErrors
ImporterRejects(r, cause) ==
  /\ run[r].pc = "importing"
  /\ ~run[r].aborted
  /\ \/ cause = "open" /\ run[r].docsProcessed = 0
     \/ /\ cause = "document"
        /\ run[r].stopOnErrors
        /\ run[r].docsProcessed < run[r].nDocs

\* startImport, lines 400-418: the toast shown for a resolved promise
ResolvedToast(aborted, errors) ==
  IF aborted THEN "cancelled"
  ELSE IF errors # <<>> THEN "completed-with-errors"
  ELSE "completed"

\* faulty variant: 'import-finished' is emitted whatever the data service
EmitsImportFinishedAlways(started, current) == TRUE

\* startImport, line 441: 'import-finished' is emitted when the data service
\* the run started with is the one in the state
EmitsImportFinished(started, current) == started = current

\* startImport, lines 349-353 and 379-444: the promise resolved; the progress
\* callback is flushed, the log closed, the toast shown, FINISHED dispatched,
\* and 'import-finished' emitted if the data service is still the same.
startImportResolved(r) ==
  /\ ImporterResolves(r)
  /\ importData' = ReduceFINISHED(importData, run[r].aborted, run[r].errors)
  /\ run' = [run EXCEPT
       ![r].pc = "finished",
       ![r].tracked = @ + 1,
       ![r].emitted = IF EmitsImportFinished(run[r].dataService, rootDataService)
                        THEN @ + 1 ELSE @,
       ![r].toasts = Append(@, ResolvedToast(run[r].aborted, run[r].errors)),
       ![r].progress = ThrottleFlush(@),
       ![r].log = CloseLog(@)]
  /\ UNCHANGED load
  /\ UNCHANGED <<dropCollection, rootDataService, ns, atlasLogin, atlasCalls>>

\* faulty variant: the log is closed at the end of the handler, not in a finally
\* block, so a handler that throws leaves it open
startImportRejectedNoFinally(r, cause, hasResult) ==
  /\ ImporterRejects(r, cause)
  /\ importData' = IF hasResult THEN ReduceFAILED(importData, ThrownError)
                                ELSE importData
  /\ run' = [run EXCEPT
       ![r].pc = IF hasResult THEN "failed" ELSE "threw",
       ![r].tracked = IF hasResult THEN @ + 1 ELSE @,
       ![r].toasts = IF hasResult THEN Append(@, "failed") ELSE @,
       ![r].rejectCause = cause,
       ![r].log = IF hasResult THEN CloseLog(@) ELSE @]
  /\ UNCHANGED load
  /\ UNCHANGED <<dropCollection, rootDataService, ns, atlasLogin, atlasCalls>>

\* startImport, lines 354-380: the promise rejected.  The handler reads
\* err.result.docsWritten to build the arguments of track('Import Completed'):
\* with an error that carries no result it throws there, before the event is
\* emitted, before the failed toast is shown and before FAILED is
\* dispatched.  The finally block closes the log either way.
startImportRejected(r, cause, hasResult) ==
  /\ ImporterRejects(r, cause)
  /\ importData' = IF hasResult THEN ReduceFAILED(importData, ThrownError)
                                ELSE importData
  /\ run' = [run EXCEPT
       ![r].pc = IF hasResult THEN "failed" ELSE "threw",
       ![r].tracked = IF hasResult THEN @ + 1 ELSE @,
       ![r].toasts = IF hasResult THEN Append(@, "failed") ELSE @,
       ![r].rejectCause = cause,
       ![r].log = CloseLog(@)]
  /\ UNCHANGED load
  /\ UNCHANGED <<dropCollection, rootDataService, ns, atlasLogin, atlasCalls>>

\* the timer of the run's throttled progressCallback expires
progressCallbackTimer(r) ==
  /\ run[r].progress.armed
  /\ run' = [run EXCEPT
       ![r].progress = ThrottleTrailing(@),
       ![r].lateProgress =
          @ \/ (run[r].pc \notin {"setup", "importing"}
                  /\ run[r].progress.pending # NoProgress)]
  /\ UNCHANGED <<importData, load>>
  /\ UNCHANGED <<dropCollection, rootDataService, ns, atlasLogin, atlasCalls>>

\* faulty variant: abort() flips the signal, a second abort() revokes the first
AbortRunToggles(rs, h) ==
  IF h = NoHandle THEN rs ELSE [rs EXCEPT ![h].aborted = ~@]

\* AbortController.abort() on the handle h held in state
AbortRun(rs, h) == IF h = NoHandle THEN rs ELSE [rs EXCEPT ![h].aborted = TRUE]

AbortLoad(ls, h) == IF h = NoHandle THEN ls ELSE [ls EXCEPT ![h].aborted = TRUE]

\* history: the runs that were importing, with status STARTED, at a cancelImport
NoteCancel(rs) ==
  [q \in Runs |->
     IF rs[q].pc = "importing" /\ importData.status = STARTED
       THEN [rs[q] EXCEPT !.cancelSeen = TRUE]
       ELSE rs[q]]

\* the reducer on an action that carries no payload
reducer(state, type) ==
  CASE type = "ANALYZE_CANCELLED" -> ReduceANALYZE_CANCELLED(state)
    [] type = "CANCELED" -> ReduceCANCELED(state)
    [] type = "OPEN" -> ReduceOPEN(state)
    [] type = "CLOSE" -> ReduceCLOSE(state)
    [] type = "OPEN_IN_PROGRESS_MESSAGE" -> ReduceOPEN_IN_PROGRESS_MESSAGE(state)
    [] type = "CLOSE_IN_PROGRESS_MESSAGE" -> ReduceCLOSE_IN_PROGRESS_MESSAGE(state)
    [] type = "DATA_SERVICE_DISCONNECTED" -> ReduceDATA_SERVICE_DISCONNECTED(state)
    [] OTHER -> state

\* the store after the actions of a thunk have been dispatched in order
RECURSIVE Dispatch(_, _)
Dispatch(state, types) ==
  IF types = <<>> THEN state
  ELSE Dispatch(reducer(state, Head(types)), Tail(types))

\* faulty variant: ANALYZE_CANCELLED is dispatched whether or not an analysis'
\* handle is held
cancelImportDispatchesAnalyzeAlways(state) ==
  <<"ANALYZE_CANCELLED">>
  \o (IF state.abortController # NoHandle THEN <<"CANCELED">> ELSE <<>>)

\* faulty variant: CANCELED is dispatched whether or not a write run's handle is held
cancelImportDispatchesAlways(state) ==
  (IF state.analyzeAbortController # NoHandle
     THEN <<"ANALYZE_CANCELLED">> ELSE <<>>)
  \o <<"CANCELED">>

\* cancelImport, lines 452-480: the actions it dispatches in the given state
cancelImportDispatches(state) ==
  (IF state.analyzeAbortController # NoHandle
     THEN <<"ANALYZE_CANCELLED">> ELSE <<>>)
  \o (IF state.abortController # NoHandle THEN <<"CANCELED">> ELSE <<>>)

\* cancelImport, lines 452-480
cancelImport ==
  /\ load' = AbortLoad(load, importData.analyzeAbortController)
  /\ run' = NoteCancel(AbortRun(run, importData.abortController))
  /\ importData' = Dispatch(importData, cancelImportDispatches(importData))
  /\ UNCHANGED <<dropCollection, rootDataService, ns, atlasLogin, atlasCalls>>

\* skipCSVAnalyze, lines 482-501
skipCSVAnalyze ==
  /\ importData.analyzeAbortController # NoHandle
  /\ load' = AbortLoad(load, importData.analyzeAbortController)
  /\ importData' = ReduceANALYZE_CANCELLED(importData)
  /\ UNCHANGED run
  /\ UNCHANGED <<dropCollection, rootDataService, ns, atlasLogin, atlasCalls>>

\* faulty variant: the analyzer's handle is not aborted
DataServiceDisconnectedWriterOnly ==
  /\ run' = AbortRun(run, importData.abortController)
  /\ load' = load
  /\ importData' = ReduceDATA_SERVICE_DISCONNECTED(importData)
  /\ rootDataService' = NoDataService
  /\ UNCHANGED <<dropCollection, ns, atlasLogin, atlasCalls>>

\* the reducer's DATA_SERVICE_DISCONNECTED case, lines 1097-1108
DataServiceDisconnected ==
  /\ run' = AbortRun(run, importData.abortController)
  /\ load' = AbortLoad(load, importData.analyzeAbortController)
  /\ importData' = ReduceDATA_SERVICE_DISCONNECTED(importData)
  /\ rootDataService' = NoDataService
  /\ UNCHANGED <<dropCollection, ns, atlasLogin, atlasCalls>>

\* DATA_SERVICE_CONNECTED: the data-service slice of the root state takes the
\* connected data service; the import slice has no case for it
DataServiceConnected(ds) ==
  /\ rootDataService' = ds
  /\ UNCHANGED <<importData, run, load, dropCollection, ns, atlasLogin, atlasCalls>>

\* faulty variant: the modal is opened whatever the status
openImportDispatchesOpen(state) == <<"OPEN">>

\* openImport, lines 807-831: the actions it dispatches in the given state
openImportDispatches(state) ==
  IF state.status = STARTED THEN <<"OPEN_IN_PROGRESS_MESSAGE">> ELSE <<"OPEN">>

\* openImport, lines 819-830: nsChanged(namespace) is dispatched unless the
\* thunk has returned at line 824
openImportNamespace(state, current, namespace) ==
  IF state.status = STARTED THEN current ELSE namespace

\* openImport({ namespace }), lines 807-831
openImportIn(namespace) ==
  /\ importData' = Dispatch(importData, openImportDispatches(importData))
  /\ ns' = openImportNamespace(importData, ns, namespace)
  /\ UNCHANGED <<run, load>>
  /\ UNCHANGED <<dropCollection, rootDataService, atlasLogin, atlasCalls>>

\* openImport, lines 807-831, where one collection's modal is followed
openImport == openImportIn(CollectionNamespace)

\* closeImport, lines 837-839
closeImport ==
  /\ importData' = ReduceCLOSE(importData)
  /\ UNCHANGED <<run, load>>
  /\ UNCHANGED <<dropCollection, rootDataService, ns, atlasLogin, atlasCalls>>

\* closeInProgressMessage, lines 841-843
closeInProgressMessage ==
  /\ importData' = ReduceCLOSE_IN_PROGRESS_MESSAGE(importData)
  /\ UNCHANGED <<run, load>>
  /\ UNCHANGED <<dropCollection, rootDataService, ns, atlasLogin, atlasCalls>>

\* setStopOnErrors, lines 784-787
setStopOnErrors(stopOnErrors) ==
  /\ importData' = ReduceSET_STOP_ON_ERRORS(importData, stopOnErrors)
  /\ UNCHANGED <<run, load>>
  /\ UNCHANGED <<dropCollection, rootDataService, ns, atlasLogin, atlasCalls>>

\* ------------------------------------------------- preview / analysis loads
IdleLoad ==
  [ pc |-> "idle",            \* idle, selecting, listing, stat, analyzing, done
    selected |-> "",          \* selectImportFileName's argument
    listFile |-> "",          \* fileName, delimiter read by loadCSVPreviewDocs
    listDelimiter |-> "",
    fileName |-> "",          \* fileName, delimiter read by loadTypes
    delimiter |-> "",
    result |-> [headerFields |-> <<>>, preview |-> <<>>],
                              \* what listCSVFields resolved with
    fields |-> <<>>,          \* fields, values of loadCSVPreviewDocs, which
    values |-> <<>>,          \* loadTypes is given
    aborted |-> FALSE,        \* loadTypes' abortController.signal.aborted
    bytesTotal |-> 0,         \* the size of the file, in chunks
    bytesProcessed |-> 0,     \* chunks the analyzer has read
    progress |-> NewThrottle, \* loadTypes' progressCallback
    \* history, read by the properties only
    lateProgress |-> FALSE ]  \* ANALYZE_PROGRESS was dispatched after the end

\* checkFileExists, from its contract
checkFileExists(fileName) == fileName # MissingFile

\* guessFileType, from its contract: the detected type and CSV delimiter
guessFileType(fileName) ==
  IF fileName = CsvFile THEN [type |-> "csv", csvDelimiter |-> ","]
  ELSE IF fileName = JsonFile THEN [type |-> "json", csvDelimiter |-> ""]
  ELSE [type |-> "unknown", csvDelimiter |-> ""]

\* listCSVFields, from its contract: the header fields of the CSV file, whose
\* first line is x,y, as split by the given delimiter
Header(fileName, delimiter) ==
  IF delimiter = "," THEN <<"x", "y">> ELSE <<"x,y">>

\* listCSVFields, from its contract: the header fields and the preview rows
\* (one row here, its first cell blank)
listCSVFields(fileName, delimiter) ==
  LET headerFields == Header(fileName, delimiter)
  IN [headerFields |-> headerFields,
      preview |-> << [i \in DOMAIN headerFields |->
                       IF i = 1 THEN "" ELSE "1"] >>]

\* csvHeaderNameToFieldName, from its contract: every [<digits>] of the
\* name becomes []
csvHeaderNameToFieldName(name) ==
  CASE name \in {"tags[0]", "tags[1]"} -> "tags[]"
    [] name \in {"a[0].b", "a[1].b"} -> "a[].b"
    [] OTHER -> name

\* uniqueName.endsWith('[]'), line 615
EndsWithBrackets(uniqueName) == uniqueName = "tags[]"

\* the names every JavaScript object inherits from Object.prototype: for
\* these fieldMap[name] is truthy in an object literal that has no such key
\* of its own (line 601, line 608)
ObjectPrototypeNames == {"constructor", "toString", "valueOf", "hasOwnProperty"}

\* loadCSVPreviewDocs, lines 606-621, one pass of the loop.  The indexes of
\* the columns count from 1 here.  fieldMap[uniqueName] is looked up through
\* the prototype: for an inherited name it is a function, push is not a
\* function of it, and the call throws.
GroupStep(acc, index, name) ==
  LET uniqueName == csvHeaderNameToFieldName(name)
  IN IF acc.threw THEN acc
     ELSE IF uniqueName \in DOMAIN acc.fieldMap
       THEN [acc EXCEPT !.fieldMap[uniqueName] = Append(@, index)]
     ELSE IF uniqueName \in ObjectPrototypeNames
       THEN [acc EXCEPT !.threw = TRUE]
     ELSE [acc EXCEPT
             !.fieldMap = [n \in DOMAIN acc.fieldMap \cup {uniqueName} |->
                            IF n = uniqueName THEN <<index>> ELSE acc.fieldMap[n]],
             !.fields = Append(@, [isArray |-> EndsWithBrackets(uniqueName),
                                   path |-> uniqueName,
                                   checked |-> TRUE,
                                   type |-> "mixed"])]

RECURSIVE GroupFrom(_, _, _)
GroupFrom(headerFields, index, acc) ==
  IF index > Len(headerFields) THEN acc
  ELSE GroupFrom(headerFields, index + 1,
                 GroupStep(acc, index, headerFields[index]))

\* loadCSVPreviewDocs, lines 601-621: fieldMap and fields for a header
GroupHeader(headerFields) ==
  GroupFrom(headerFields, 1,
            [threw |-> FALSE, fieldMap |-> [n \in {} |-> <<>>], fields |-> <<>>])

\* Array.prototype.join
RECURSIVE Join(_, _)
Join(cells, separator) ==
  IF cells = <<>> THEN ""
  ELSE IF Len(cells) = 1 THEN cells[1]
  ELSE cells[1] \o separator \o Join(Tail(cells), separator)

\* JSON.stringify(cellValues, null, 2) of an array of strings that need no
\* escaping
JSONStringify(cellValues) ==
  IF cellValues = <<>> THEN "[]"
  ELSE "[\n  "
       \o Join([i \in DOMAIN cellValues |-> "\"" \o cellValues[i] \o "\""], ",\n  ")
       \o "\n]"

\* faulty variant: the blank cells of a group are kept
PreviewRowKeepsBlanks(fields, fieldMap, row) ==
  [j \in DOMAIN fields |->
     LET columns == fieldMap[fields[j].path]
     IN IF Len(columns) = 1 THEN row[columns[1]]
        ELSE LET cellValues == [k \in DOMAIN columns |-> row[columns[k]]]
             IN IF fields[j].isArray THEN JSONStringify(cellValues)
                                     ELSE Join(cellValues, ", ")]

\* loadCSVPreviewDocs, lines 625-646: the cells of one preview row
PreviewRow(fields, fieldMap, row) ==
  [j \in DOMAIN fields |->
     LET columns == fieldMap[fields[j].path]
     IN IF Len(columns) = 1 THEN row[columns[1]]
        ELSE LET cellValues ==
                   SelectSeq([k \in DOMAIN columns |-> row[columns[k]]],
                             LAMBDA value : value # "")
             IN IF fields[j].isArray THEN JSONStringify(cellValues)
                                     ELSE Join(cellValues, ", ")]

\* loadCSVPreviewDocs, lines 623-647
PreviewValues(fields, fieldMap, preview) ==
  [i \in DOMAIN preview |-> PreviewRow(fields, fieldMap, preview[i])]

\* the fields loadCSVPreviewDocs builds from the header listCSVFields read
\* with the given delimiter (lines 601-621), before types are detected
PreviewFields(fileName, delimiter) ==
  GroupHeader(Header(fileName, delimiter)).fields

\* the paths a field of the preview can have
FieldPaths == {"x", "y", "x,y"}

\* csvFields, lines 845-849: the fields that have a type
csvFields(fs) == SelectSeq(fs, LAMBDA f : "type" \in DOMAIN f)

\* faulty variant: transform holds the checked fields and exclude is left as
\* it was
ReduceTOGGLE_INCLUDE_FIELDKeepsExclude(state, path) ==
  LET toggled == [i \in DOMAIN state.fields |->
                    IF state.fields[i].path = path
                      THEN [state.fields[i] EXCEPT !.checked = ~@]
                      ELSE state.fields[i]]
      typed == SelectSeq(csvFields(toggled), LAMBDA f : f.checked)
  IN [state EXCEPT
        !.fields = toggled,
        !.transform = [i \in DOMAIN typed |-> <<typed[i].path, typed[i].type>>]]

ReduceTOGGLE_INCLUDE_FIELD(state, path) ==
  LET toggled == [i \in DOMAIN state.fields |->
                    IF state.fields[i].path = path
                      THEN [state.fields[i] EXCEPT !.checked = ~@]
                      ELSE state.fields[i]]
      typed == csvFields(toggled)
      unchecked == SelectSeq(toggled, LAMBDA f : ~f.checked)
  IN [state EXCEPT
        !.fields = toggled,
        !.transform = [i \in DOMAIN typed |-> <<typed[i].path, typed[i].type>>],
        !.exclude = [i \in DOMAIN unchecked |-> unchecked[i].path]]

\* faulty variant: the type is set and the field is left as it was, excluded
\* if it was excluded
ReduceSET_FIELD_TYPEKeepsChecked(state, path, bsonType) ==
  LET typed == [i \in DOMAIN state.fields |->
                  IF state.fields[i].path = path
                    THEN [state.fields[i] EXCEPT !.type = bsonType]
                    ELSE state.fields[i]]
      checked == SelectSeq(csvFields(typed), LAMBDA f : f.checked)
      unchecked == SelectSeq(typed, LAMBDA f : ~f.checked)
  IN [state EXCEPT
        !.fields = typed,
        !.transform = [i \in DOMAIN checked |-> <<checked[i].path, checked[i].type>>],
        !.exclude = [i \in DOMAIN unchecked |-> unchecked[i].path]]

ReduceSET_FIELD_TYPE(state, path, bsonType) ==
  LET typed == [i \in DOMAIN state.fields |->
                  IF state.fields[i].path = path
                    THEN [state.fields[i] EXCEPT !.checked = TRUE,
                                                 !.type = bsonType]
                    ELSE state.fields[i]]
      checked == SelectSeq(csvFields(typed), LAMBDA f : f.checked)
      unchecked == SelectSeq(typed, LAMBDA f : ~f.checked)
  IN [state EXCEPT
        !.fields = typed,
        !.transform = [i \in DOMAIN checked |-> <<checked[i].path, checked[i].type>>],
        !.exclude = [i \in DOMAIN unchecked |-> unchecked[i].path]]

\* the types a user can choose for a field
BsonTypes == {"string", "number"}

\* setFieldType, lines 692-698
setFieldType(path, bsonType) ==
  /\ importData' = ReduceSET_FIELD_TYPE(importData, path, bsonType)
  /\ UNCHANGED <<run, load>>
  /\ UNCHANGED <<dropCollection, rootDataService, ns, atlasLogin, atlasCalls>>

\* toggleIncludeField, lines 673-676
toggleIncludeField(path) ==
  /\ importData' = ReduceTOGGLE_INCLUDE_FIELD(importData, path)
  /\ UNCHANGED <<run, load>>
  /\ UNCHANGED <<dropCollection, rootDataService, ns, atlasLogin, atlasCalls>>

\* setIgnoreBlanks, lines 795-798
setIgnoreBlanks(ignoreBlanks) ==
  /\ importData' = ReduceSET_IGNORE_BLANKS(importData, ignoreBlanks)
  /\ UNCHANGED <<run, load>>
  /\ UNCHANGED <<dropCollection, rootDataService, ns, atlasLogin, atlasCalls>>

\* ---- the documents of the importers, modelled from their contract ----
\* a row of the source as the parser yields it, <<name, value>> per field:
\* the CSV row by the header read with the run's delimiter, the JSON
\* document with the fields x and y; the first value is the empty string
SourceDocument(fileType, fileName, delimiter) ==
  LET names == IF fileType = "csv" THEN Header(fileName, delimiter)
                                   ELSE <<"x", "y">>
  IN [i \in DOMAIN names |-> <<names[i], IF i = 1 THEN "" ELSE "1">>]

\* the document a run submits to the backing store for that row.  importCSV
\* builds it from the fields it was given, leaving out empty strings under
\* ignoreEmptyStrings; importJSON is given neither and submits the row as
\* parsed (lines 321-347).
SubmittedDocument(r) ==
  LET source == SourceDocument(r.fileType, r.fileName, r.delimiter)
      given == {r.fields[i][1] : i \in DOMAIN r.fields}
  IN IF r.fileType = "csv"
       THEN SelectSeq(source, LAMBDA cell :
              cell[1] \in given /\ ~(r.ignoreBlanks /\ cell[2] = ""))
       ELSE source

\* analyzeCSVFields' result: the file and delimiter it analyzed, and how far
AnalyzeResult(l) ==
  l.fileName \o l.delimiter \o (IF l.aborted THEN ":partial" ELSE ":full")

\* lines 553-557: every field takes the type detected for its path
TypedFields(fields) ==
  [i \in DOMAIN fields |-> [fields[i] EXCEPT !.type = "detected"]]

ReduceSET_PREVIEW(state, fields, values) ==
  [state EXCEPT !.values = values,
                !.fields = fields,
                !.previewLoaded = TRUE,
                !.exclude = <<>>,
                !.transform =
                  LET checked == SelectSeq(fields, LAMBDA f : f.checked)
                  IN [i \in DOMAIN checked |-> <<checked[i].path, checked[i].type>>]]

FirstIdleLoad(a) ==
  /\ load[a].pc = "idle"
  /\ \A b \in Loads : b < a => load[b].pc # "idle"

\* selectImportFileName, lines 700-710: waits for the file checks and
\* guessFileType
selectImportFileName(a, fileName) ==
  /\ FirstIdleLoad(a)
  /\ load' = [load EXCEPT ![a] = [IdleLoad EXCEPT !.pc = "selecting",
                                                  !.selected = fileName]]
  /\ UNCHANGED <<importData, run>>
  /\ UNCHANGED <<dropCollection, rootDataService, ns, atlasLogin, atlasCalls>>

\* selectImportFileName, lines 712-739, and for a CSV file loadCSVPreviewDocs
\* up to its await of listCSVFields (lines 594-599)
selectImportFileNameDetected(a) ==
  /\ load[a].pc = "selecting"
  /\ LET fileName == load[a].selected
         detected == guessFileType(fileName)
     IN IF ~checkFileExists(fileName) \/ detected.type = "unknown"
          THEN /\ importData' = ReduceFILE_SELECT_ERROR(importData, SelectError)
               /\ load' = [load EXCEPT ![a].pc = "done"]
          ELSE /\ importData' = ReduceFILE_SELECTED(importData,
                     detected.csvDelimiter, fileName, detected.type, FALSE)
               /\ load' = [load EXCEPT
                     ![a].pc = IF detected.type = "csv" THEN "listing" ELSE "done",
                     ![a].listFile = importData'.fileName,
                     ![a].listDelimiter = importData'.delimiter]
  /\ UNCHANGED run
  /\ UNCHANGED <<dropCollection, rootDataService, ns, atlasLogin, atlasCalls>>

\* setDelimiter, lines 746-771, and loadCSVPreviewDocs up to its await
setDelimiter(a, delimiter) ==
  /\ importData' = ReduceSET_DELIMITER(importData, delimiter)
  /\ IF importData.fileType = "csv"
       THEN /\ FirstIdleLoad(a)
            /\ load' = [load EXCEPT ![a] = [IdleLoad EXCEPT
                         !.pc = "listing",
                         !.listFile = importData'.fileName,
                         !.listDelimiter = importData'.delimiter]]
       ELSE /\ a = 1
            /\ UNCHANGED load
  /\ UNCHANGED run
  /\ UNCHANGED <<dropCollection, rootDataService, ns, atlasLogin, atlasCalls>>

\* loadCSVPreviewDocs, lines 599-649, then loadTypes, lines 511-522:
\* listCSVFields resolved with result; the fields are grouped and the
\* preview values built; loadTypes reads the state, aborts the analysis
\* whose handle is in state (abort, then skipCSVAnalyze) and waits for
\* getFileStats.  When the grouping throws, loadTypes is not called and
\* ANALYZE_FAILED is dispatched (lines 650-663).
loadCSVPreviewDocsListed(a, result) ==
  /\ load[a].pc = "listing"
  /\ LET grouped == GroupHeader(result.headerFields)
         analyzeAbortController == importData.analyzeAbortController
         l1 == AbortLoad(load, analyzeAbortController)
     IN IF grouped.threw
          THEN /\ importData' = ReduceANALYZE_FAILED(importData, "group")
               /\ load' = [load EXCEPT ![a].pc = "done",
                                       ![a].result = result]
          ELSE /\ importData' = IF analyzeAbortController # NoHandle
                                  THEN ReduceANALYZE_CANCELLED(importData)
                                  ELSE importData
               /\ load' = [l1 EXCEPT
                     ![a].pc = "stat",
                     ![a].result = result,
                     ![a].fields = grouped.fields,
                     ![a].values = PreviewValues(grouped.fields, grouped.fieldMap,
                                                 result.preview),
                     ![a].fileName = importData.fileName,
                     ![a].delimiter = importData.delimiter]
  /\ UNCHANGED run
  /\ UNCHANGED <<dropCollection, rootDataService, ns, atlasLogin, atlasCalls>>

\* the same, with what listCSVFields reads from the file that was selected
loadTypes(a) ==
  loadCSVPreviewDocsListed(a,
    listCSVFields(load[a].listFile, load[a].listDelimiter))

\* loadCSVPreviewDocs, lines 650-663: listCSVFields rejected
loadCSVPreviewDocsFailed(a) ==
  /\ load[a].pc = "listing"
  /\ importData' = ReduceANALYZE_FAILED(importData, "list")
  /\ load' = [load EXCEPT ![a].pc = "done"]
  /\ UNCHANGED run
  /\ UNCHANGED <<dropCollection, rootDataService, ns, atlasLogin, atlasCalls>>

\* loadTypes, lines 522-551: getFileStats resolved; ANALYZE_STARTED is
\* dispatched with the new handle and analyzeCSVFields is called.  With no
\* file to stat, loadTypes rejects and loadCSVPreviewDocs dispatches
\* ANALYZE_FAILED (lines 650-663).
loadTypesStarted(a, fileSize) ==
  /\ load[a].pc = "stat"
  /\ IF load[a].fileName = ""
       THEN /\ importData' = ReduceANALYZE_FAILED(importData, "stat")
            /\ load' = [load EXCEPT ![a].pc = "done"]
       ELSE /\ importData' = ReduceANALYZE_STARTED(importData, a, fileSize)
            /\ load' = [load EXCEPT ![a].pc = "analyzing",
                                    ![a].bytesTotal = fileSize]
  /\ UNCHANGED run
  /\ UNCHANGED <<dropCollection, rootDataService, ns, atlasLogin, atlasCalls>>

\* analyzeCSVFields, from its contract: one unit of work (the signal is
\* checked, a chunk is read and classified, progress is reported); the
\* throttled callback dispatches ANALYZE_PROGRESS when it is invoked
analyzeChunk(a, withinWait) ==
  /\ load[a].pc = "analyzing"
  /\ ~load[a].aborted
  /\ load[a].bytesProcessed < load[a].bytesTotal
  /\ LET k == load[a].bytesProcessed + 1
         t == ThrottleCall(load[a].progress, k, withinWait)
     IN /\ load' = [load EXCEPT ![a].bytesProcessed = k,
                                ![a].progress = t]
        /\ importData' = IF t.delivered # load[a].progress.delivered
                           THEN ReduceANALYZE_PROGRESS(importData, k)
                           ELSE importData
  /\ UNCHANGED run
  /\ UNCHANGED <<dropCollection, rootDataService, ns, atlasLogin, atlasCalls>>

\* the timer of the load's throttled progressCallback expires
analyzeProgressTimer(a) ==
  /\ load[a].progress.armed
  /\ load' = [load EXCEPT
       ![a].progress = ThrottleTrailing(@),
       ![a].lateProgress =
          @ \/ (load[a].pc = "done" /\ load[a].progress.pending # NoProgress)]
  /\ importData' = IF load[a].progress.pending # NoProgress
                     THEN ReduceANALYZE_PROGRESS(importData, load[a].progress.pending)
                     ELSE importData
  /\ UNCHANGED run
  /\ UNCHANGED <<dropCollection, rootDataService, ns, atlasLogin, atlasCalls>>

\* analyzeCSVFields resolves at the checkpoint after an abort (a best-effort
\* result) or at the end of the file
AnalyzerResolves(a) ==
  /\ load[a].pc = "analyzing"
  /\ load[a].aborted \/ load[a].bytesProcessed = load[a].bytesTotal

\* faulty variant: an aborted analysis is taken for a failed one
loadTypesResolvedAbortFails(a) ==
  /\ AnalyzerResolves(a)
  /\ LET fields == load[a].fields
         values == load[a].values
     IN importData' =
          IF /\ load[a].listFile = load[a].fileName
             /\ load[a].listDelimiter = load[a].delimiter
             /\ ~load[a].aborted
            THEN ReduceANALYZE_FINISHED(
                   ReduceSET_PREVIEW(importData, TypedFields(fields), values),
                   AnalyzeResult(load[a]))
            ELSE ReduceANALYZE_FAILED(importData, "type")
  /\ load' = [load EXCEPT ![a].pc = "done"]
  /\ UNCHANGED run
  /\ UNCHANGED <<dropCollection, rootDataService, ns, atlasLogin, atlasCalls>>

\* loadTypes, lines 553-580: the result is applied to the fields; a field
\* whose path the result does not hold (the header was listed from another
\* file or delimiter than the one analyzed) throws, and ANALYZE_FAILED is
\* dispatched instead
loadTypesResolved(a) ==
  /\ AnalyzerResolves(a)
  /\ LET fields == load[a].fields
         values == load[a].values
     IN importData' =
          IF load[a].listFile = load[a].fileName
             /\ load[a].listDelimiter = load[a].delimiter
            THEN ReduceANALYZE_FINISHED(
                   ReduceSET_PREVIEW(importData, TypedFields(fields), values),
                   AnalyzeResult(load[a]))
            ELSE ReduceANALYZE_FAILED(importData, "type")
  /\ load' = [load EXCEPT ![a].pc = "done"]
  /\ UNCHANGED run
  /\ UNCHANGED <<dropCollection, rootDataService, ns, atlasLogin, atlasCalls>>

\* ------------------------------------------------ drop-collection store
\* the names and data services the application registry emits
DatabaseNames == {"testing", "admin", "local", "db"}
CollectionNames == {"test", "users", "orders", "logs"}
DataServices == {"data-service", "ds2", "ds3"}
NoError == "null"
ConnectErrors == {NoError, "refused"}

\* the store before anything is emitted; activated: onActivated has
\* registered the store's listeners on the application registry
DropCollectionInitialState ==
  [activated |-> FALSE,
   isVisible |-> FALSE,
   name |-> "",
   databaseName |-> "",
   dataService |-> [error |-> NoError, dataService |-> "null"]]

\* faulty variant: the listener takes the names in the wrong order
ReduceOpenDropCollectionSwapsNames(state, databaseName, collectionName) ==
  [state EXCEPT !.isVisible = TRUE,
                !.name = databaseName,
                !.databaseName = collectionName]

\* what the 'open-drop-collection' listener dispatches
ReduceOpenDropCollection(state, databaseName, collectionName) ==
  [state EXCEPT !.isVisible = TRUE,
                !.name = collectionName,
                !.databaseName = databaseName]

\* what the 'data-service-connected' listener dispatches
ReduceDataServiceConnected(state, error, dataService) ==
  [state EXCEPT !.dataService = [error |-> error, dataService |-> dataService]]

\* store.onActivated(appRegistry)
onActivated ==
  /\ dropCollection' = [dropCollection EXCEPT !.activated = TRUE]
  /\ UNCHANGED <<importData, run, load, rootDataService, ns, atlasLogin, atlasCalls>>

\* appRegistry.emit('open-drop-collection', databaseName, collectionName):
\* reaches the store only through the listeners onActivated registered
emitOpenDropCollection(databaseName, collectionName) ==
  /\ dropCollection' =
       IF dropCollection.activated
         THEN ReduceOpenDropCollection(dropCollection, databaseName, collectionName)
         ELSE dropCollection
  /\ UNCHANGED <<importData, run, load, rootDataService, ns, atlasLogin, atlasCalls>>

\* appRegistry.emit('data-service-connected', error, dataService)
emitDataServiceConnected(error, dataService) ==
  /\ dropCollection' =
       IF dropCollection.activated
         THEN ReduceDataServiceConnected(dropCollection, error, dataService)
         ELSE dropCollection
  /\ UNCHANGED <<importData, run, load, rootDataService, ns, atlasLogin, atlasCalls>>

\* ------------------------------------------------------ Atlas login store
\* sign-in attempts, getUserInfo calls and signOut calls a behaviour may hold
MaxAttempts == 2
MaxUserInfoCalls == 1
MaxSignOuts == 1

Attempts == 1..MaxAttempts
UserInfoCalls == 1..MaxUserInfoCalls

\* attemptId: null; the id getAbortSignal() gives the i-th attempt is i
NoAttempt == 0

\* userInfo: null
NoUserInfo == "null"
AtlasUsers == {"alice", "bob"}

AtlasLoginINITIAL_STATE ==
  [status |-> "initial", attemptId |-> NoAttempt, userInfo |-> NoUserInfo]

\* the reducer, lines 78-157; an action is a record with its type and payload
atlasLoginReducer(state, action) ==
  CASE action.type = "SignInStart" ->
         [status |-> "in-progress",
          attemptId |-> action.attemptId,
          userInfo |-> NoUserInfo]
    [] action.type = "GetUserInfoStart" ->
         [state EXCEPT !.status = "in-progress", !.userInfo = NoUserInfo]
    [] action.type \in {"SignInSuccess", "GetUserInfoSuccess"} ->
         [state EXCEPT !.status = "authenticated",
                       !.userInfo = action.userInfo,
                       !.attemptId = NoAttempt]
    [] action.type \in {"SignOut", "SignInError", "GetUserInfoError",
                        "AtlasServiceSignedOut", "AtlasServiceTokenRefreshFailed",
                        "CancelAttempt"} ->
         [state EXCEPT !.status = "unauthenticated", !.userInfo = NoUserInfo]
    [] OTHER -> state

\* the store after the actions of a thunk have been dispatched in order
RECURSIVE atlasLoginDispatch(_, _)
atlasLoginDispatch(state, actions) ==
  IF actions = <<>> THEN state
  ELSE atlasLoginDispatch(atlasLoginReducer(state, Head(actions)), Tail(actions))

\* the thunks under way.  signIn[i]: the i-th sign-in attempt (idle, awaiting
\* atlasAuthService.signIn, done) and its signal; getUserInfo[j]: the j-th
\* getUserInfo call (idle, awaiting, done); signOut: the signOut calls that
\* wait for atlasAuthService.signOut.  outcome (how an attempt settled:
\* resolved, rejected, cancelled) and last are history, read by the
\* properties only: the thunk invoked last, the status it found, the action
\* types it dispatched before its first await or return, and whether it
\* called the auth service or abort().
IdleAtlasCalls ==
  [signIn |-> [i \in Attempts |->
                 [pc |-> "idle", aborted |-> FALSE, outcome |-> ""]],
   getUserInfo |-> [j \in UserInfoCalls |-> "idle"],
   signOut |-> 0,
   last |-> [thunk |-> "", status |-> "", dispatched |-> <<>>, called |-> FALSE]]

Invoked(thunk, actions, called) ==
  [thunk |-> thunk,
   status |-> atlasLogin.status,
   dispatched |-> [k \in DOMAIN actions |-> actions[k].type],
   called |-> called]

\* faulty variant: only a sign-in under way stops signIn
signInReturnsInProgressOnly(status) == status = "in-progress"

\* signIn, lines 161-165: the thunk returns at once
signInReturns(status) == status \in {"in-progress", "authenticated"}

\* getUserInfo, lines 190-194: the thunk returns at once
getUserInfoReturns(status) == status \in {"in-progress", "authenticated"}

\* signIn, lines 159-174: unless it returns at once, the thunk takes a signal
\* and its id, dispatches SignInStart and calls atlasAuthService.signIn
signIn(i) ==
  /\ IF signInReturns(atlasLogin.status)
       THEN /\ i = 1
            /\ atlasLogin' = atlasLogin
            /\ atlasCalls' = [atlasCalls EXCEPT !.last = Invoked("signIn", <<>>, FALSE)]
       ELSE LET actions == << [type |-> "SignInStart", attemptId |-> i] >>
            IN /\ atlasCalls.signIn[i].pc = "idle"
               /\ \A h \in Attempts : h < i => atlasCalls.signIn[h].pc # "idle"
               /\ atlasLogin' = atlasLoginDispatch(atlasLogin, actions)
               /\ atlasCalls' = [atlasCalls EXCEPT
                     !.signIn[i].pc = "awaiting",
                     !.last = Invoked("signIn", actions, TRUE)]
  /\ UNCHANGED <<importData, run, load, dropCollection, rootDataService, ns>>

\* signIn, line 175: atlasAuthService.signIn resolved.  From the service's
\* contract, a call whose signal is aborted does not resolve.
signInResolved(i, userInfo) ==
  /\ atlasCalls.signIn[i].pc = "awaiting"
  /\ ~atlasCalls.signIn[i].aborted
  /\ atlasLogin' = atlasLoginReducer(atlasLogin,
                     [type |-> "SignInSuccess", userInfo |-> userInfo])
  /\ atlasCalls' = [atlasCalls EXCEPT !.signIn[i].pc = "done",
                                      !.signIn[i].outcome = "resolved"]
  /\ UNCHANGED <<importData, run, load, dropCollection, rootDataService, ns>>

\* faulty variant: SignInError is dispatched for a cancelled attempt too
signInRejectedDispatchesAlways(aborted) == << [type |-> "SignInError"] >>

\* signIn, lines 176-184: what the catch block dispatches
signInRejectedDispatches(aborted) ==
  IF aborted THEN <<>> ELSE << [type |-> "SignInError"] >>

\* signIn, lines 176-184: atlasAuthService.signIn rejected, of itself or
\* because its signal was aborted
signInRejected(i) ==
  /\ atlasCalls.signIn[i].pc = "awaiting"
  /\ atlasLogin' = atlasLoginDispatch(atlasLogin,
                     signInRejectedDispatches(atlasCalls.signIn[i].aborted))
  /\ atlasCalls' = [atlasCalls EXCEPT
       !.signIn[i].pc = "done",
       !.signIn[i].outcome = IF atlasCalls.signIn[i].aborted THEN "cancelled"
                                                            ELSE "rejected"]
  /\ UNCHANGED <<importData, run, load, dropCollection, rootDataService, ns>>

\* getUserInfo, lines 188-197
getUserInfo(j) ==
  /\ IF getUserInfoReturns(atlasLogin.status)
       THEN /\ j = 1
            /\ atlasLogin' = atlasLogin
            /\ atlasCalls' = [atlasCalls EXCEPT
                  !.last = Invoked("getUserInfo", <<>>, FALSE)]
       ELSE LET actions == << [type |-> "GetUserInfoStart"] >>
            IN /\ atlasCalls.getUserInfo[j] = "idle"
               /\ \A h \in UserInfoCalls : h < j => atlasCalls.getUserInfo[h] # "idle"
               /\ atlasLogin' = atlasLoginDispatch(atlasLogin, actions)
               /\ atlasCalls' = [atlasCalls EXCEPT
                     !.getUserInfo[j] = "awaiting",
                     !.last = Invoked("getUserInfo", actions, TRUE)]
  /\ UNCHANGED <<importData, run, load, dropCollection, rootDataService, ns>>

\* getUserInfo, lines 198-201: atlasAuthService.getUserInfo resolved
getUserInfoResolved(j, userInfo) ==
  /\ atlasCalls.getUserInfo[j] = "awaiting"
  /\ atlasLogin' = atlasLoginReducer(atlasLogin,
                     [type |-> "GetUserInfoSuccess", userInfo |-> userInfo])
  /\ atlasCalls' = [atlasCalls EXCEPT !.getUserInfo[j] = "done"]
  /\ UNCHANGED <<importData, run, load, dropCollection, rootDataService, ns>>

\* getUserInfo, lines 202-207: atlasAuthService.getUserInfo rejected
getUserInfoRejected(j) ==
  /\ atlasCalls.getUserInfo[j] = "awaiting"
  /\ atlasLogin' = atlasLoginReducer(atlasLogin, [type |-> "GetUserInfoError"])
  /\ atlasCalls' = [atlasCalls EXCEPT !.getUserInfo[j] = "done"]
  /\ UNCHANGED <<importData, run, load, dropCollection, rootDataService, ns>>

\* signOut, lines 211-213: the thunk waits for atlasAuthService.signOut
signOut ==
  /\ atlasCalls.signOut < MaxSignOuts
  /\ atlasCalls' = [atlasCalls EXCEPT !.signOut = @ + 1,
                                      !.last = Invoked("signOut", <<>>, TRUE)]
  /\ UNCHANGED atlasLogin
  /\ UNCHANGED <<importData, run, load, dropCollection, rootDataService, ns>>

\* signOut, line 214: atlasAuthService.signOut resolved (ok), or rejected and
\* the thunk with it
signOutSettled(ok) ==
  /\ atlasCalls.signOut > 0
  /\ atlasLogin' = IF ok THEN atlasLoginReducer(atlasLogin, [type |-> "SignOut"])
                         ELSE atlasLogin
  /\ atlasCalls' = [atlasCalls EXCEPT !.signOut = @ - 1]
  /\ UNCHANGED <<importData, run, load, dropCollection, rootDataService, ns>>

\* atlasServiceSignedOut, atlasServiceTokenRefreshFailed, lines 218-228: the
\* plain actions, as the store's owner dispatches them
atlasServiceEvent(type) ==
  /\ atlasLogin' = atlasLoginReducer(atlasLogin, [type |-> type])
  /\ UNCHANGED atlasCalls
  /\ UNCHANGED <<importData, run, load, dropCollection, rootDataService, ns>>

\* abort(id), from its contract: the signal that getAbortSignal gave with
\* this id is aborted
abort(calls, id) == [calls EXCEPT !.signIn[id].aborted = TRUE]

\* cancelAtlasLoginAttempt, lines 230-239
cancelAtlasLoginAttempt ==
  /\ LET attemptId == atlasLogin.attemptId
     IN IF attemptId = NoAttempt
          THEN /\ atlasLogin' = atlasLogin
               /\ atlasCalls' = [atlasCalls EXCEPT
                     !.last = Invoked("cancelAtlasLoginAttempt", <<>>, FALSE)]
          ELSE LET actions == << [type |-> "CancelAttempt"] >>
               IN /\ atlasLogin' = atlasLoginDispatch(atlasLogin, actions)
                  /\ atlasCalls' = [abort(atlasCalls, attemptId) EXCEPT
                        !.last = Invoked("cancelAtlasLoginAttempt", actions, TRUE)]
  /\ UNCHANGED <<importData, run, load, dropCollection, rootDataService, ns>>

\* ----------------------------------------------------------- specifications
Init ==
  /\ importData = INITIAL_STATE
  /\ run = [r \in Runs |-> IdleRun]
  /\ load = [a \in Loads |-> IdleLoad]
  /\ dropCollection = DropCollectionInitialState
  /\ rootDataService = NoDataService
  /\ ns = NoNamespace
  /\ atlasLogin = AtlasLoginINITIAL_STATE
  /\ atlasCalls = IdleAtlasCalls

\* what the user does with the modal and its options
ModalActions ==
  \/ openImport
  \/ closeImport
  \/ closeInProgressMessage

\* the write runs RS, over files of n documents, n in DS
RunActions(RS, DS) ==
  \/ \E r \in RS, n \in DS : startImport(r, n)
  \/ \E r \in RS, logCreated \in BOOLEAN : startImportStarted(r, logCreated)
  \/ \E r \in RS, ok \in BOOLEAN, withinWait \in BOOLEAN :
       ImportDocument(r, ok, withinWait)
  \/ \E r \in RS : startImportResolved(r)
  \/ \E r \in RS, cause \in {"open", "document"}, hasResult \in BOOLEAN :
       startImportRejected(r, cause, hasResult)
  \/ \E r \in RS : progressCallbackTimer(r)

\* the preview/analysis loads LS, over the files FS
LoadActions(LS, FS) ==
  \/ \E a \in LS, f \in FS : selectImportFileName(a, f)
  \/ \E a \in LS : selectImportFileNameDetected(a)
  \/ \E a \in LS, d \in Delimiters : setDelimiter(a, d)
  \/ \E a \in LS : loadTypes(a)
  \/ \E a \in LS : loadCSVPreviewDocsFailed(a)
  \/ \E a \in LS : loadTypesStarted(a, MaxChunks)
  \/ \E a \in LS, withinWait \in BOOLEAN : analyzeChunk(a, withinWait)
  \/ \E a \in LS : analyzeProgressTimer(a)
  \/ \E a \in LS : loadTypesResolved(a)

\* Spec: overlapping write runs of one session
Next ==
  \/ openImport
  \/ \E b \in BOOLEAN : setStopOnErrors(b)
  \/ RunActions(Runs, {MaxDocs})
  \/ cancelImport
  \/ DataServiceDisconnected

Spec == Init /\ [][Next]_vars

\* SpecDocs: one write run, followed document by document
OneRun == {1}

NextDocs ==
  \/ \E b \in BOOLEAN : setStopOnErrors(b)
  \/ RunActions(OneRun, {MaxDocsOneRun})
  \/ cancelImport

SpecDocs == Init /\ [][NextDocs]_vars

\* SpecSettles: the same run, whose importer goes on until its promise
\* settles and whose handler then runs
RunSettles ==
  \A r \in OneRun :
    /\ WF_vars(\E logCreated \in BOOLEAN : startImportStarted(r, logCreated))
    /\ WF_vars(\E ok \in BOOLEAN, withinWait \in BOOLEAN :
                 ImportDocument(r, ok, withinWait))
    /\ WF_vars(startImportResolved(r))

SpecSettles == Init /\ [][NextDocs]_vars /\ RunSettles

\* SpecLoads: overlapping preview/analysis loads of one session
NextLoads ==
  \/ openImport
  \/ LoadActions(Loads, Files)
  \/ cancelImport
  \/ skipCSVAnalyze
  \/ DataServiceDisconnected

SpecLoads == Init /\ [][NextLoads]_vars

\* SpecAnalyze: one write run beside one analysis of the CSV file; the
\* analysis reads its chunks within one wait of its throttle, whose timer
\* expires in SpecLoads and SpecProgress
OneLoad == {1}

NextAnalyze ==
  \/ ModalActions
  \/ RunActions(OneRun, {MaxDocsBeside})
  \/ \E a \in OneLoad : selectImportFileName(a, CsvFile)
  \/ \E a \in OneLoad : selectImportFileNameDetected(a)
  \/ \E a \in OneLoad, d \in Delimiters : setDelimiter(a, d)
  \/ \E a \in OneLoad : loadTypes(a)
  \/ \E a \in OneLoad : loadCSVPreviewDocsFailed(a)
  \/ \E a \in OneLoad : loadTypesStarted(a, MaxChunks)
  \/ \E a \in OneLoad : analyzeChunk(a, FALSE)
  \/ \E a \in OneLoad : loadTypesResolved(a)
  \/ cancelImport
  \/ DataServiceDisconnected

SpecAnalyze == Init /\ [][NextAnalyze]_vars

\* SpecProgress: one write run and one analysis, with their progress
\* callbacks; a timer that lodash has set expires
NextProgress ==
  \/ \E b \in BOOLEAN : setStopOnErrors(b)
  \/ RunActions(OneRun, {MaxDocsProgress})
  \/ LoadActions(OneLoad, {CsvFile})
  \/ cancelImport

TimersExpire ==
  /\ \A r \in OneRun : WF_vars(progressCallbackTimer(r))
  /\ \A a \in OneLoad : WF_vars(analyzeProgressTimer(a))

SpecProgress == Init /\ [][NextProgress]_vars /\ TimersExpire

\* SpecCycles: write runs of an empty file, one after or beside another,
\* with the modal reopened in between
NextCycles ==
  \/ openImport
  \/ \E r \in Runs : startImport(r, EmptyFile)
  \/ \E r \in Runs, logCreated \in BOOLEAN : startImportStarted(r, logCreated)
  \/ \E r \in Runs : startImportResolved(r)
  \/ \E r \in Runs, hasResult \in BOOLEAN : startImportRejected(r, "open", hasResult)
  \/ cancelImport
  \/ DataServiceDisconnected

SpecCycles == Init /\ [][NextCycles]_vars

\* SpecFields: files are selected and analyzed, fields are excluded and
\* ignoreBlanks is set, then one run imports
SelectableFiles == {CsvFile, JsonFile, UnknownFile, MissingFile}

\* two selections, one after the other or overlapping
TwoLoads == {1, 2}

NextFields ==
  \/ \E a \in TwoLoads, f \in SelectableFiles : selectImportFileName(a, f)
  \/ \E a \in TwoLoads : selectImportFileNameDetected(a)
  \/ \E a \in TwoLoads, d \in Delimiters : setDelimiter(a, d)
  \/ \E a \in TwoLoads : loadTypes(a)
  \/ \E a \in TwoLoads : loadTypesStarted(a, EmptyFile)
  \/ \E a \in TwoLoads : loadTypesResolved(a)
  \/ \E path \in FieldPaths : toggleIncludeField(path)
  \/ \E b \in BOOLEAN : setIgnoreBlanks(b)
  \/ \E r \in OneRun : startImport(r, MaxDocs)
  \/ \E r \in OneRun : startImportStarted(r, TRUE)
  \/ \E r \in OneRun : ImportDocument(r, TRUE, FALSE)
  \/ \E r \in OneRun : startImportResolved(r)

SpecFields == Init /\ [][NextFields]_vars

\* SpecSkip: preview/analysis loads of the CSV file, which the user skips or
\* cancels
NextSkip ==
  \/ LoadActions(TwoLoads, {CsvFile})
  \/ skipCSVAnalyze
  \/ cancelImport

SpecSkip == Init /\ [][NextSkip]_vars

\* SpecPreview: the CSV file is selected once; listCSVFields resolves with
\* any header of at most MaxColumns columns and one preview row
HeaderNames == {"x", "tags[0]", "tags[1]", "a[0].b", "a[1].b", "constructor"}

Cells == {"", "a", "b"}

\* listCSVFields resolves for load a with some header and one preview row
loadCSVPreviewDocsListedAny(a) ==
  /\ load[a].pc = "listing"
  /\ \E n \in 1..MaxColumns :
       \E headerFields \in [1..n -> HeaderNames], row \in [1..n -> Cells] :
         loadCSVPreviewDocsListed(a, [headerFields |-> headerFields,
                                      preview |-> <<row>>])

NextPreview ==
  \/ \E a \in OneLoad : selectImportFileName(a, CsvFile)
  \/ \E a \in OneLoad : selectImportFileNameDetected(a)
  \/ \E a \in OneLoad : loadCSVPreviewDocsListedAny(a)
  \/ \E a \in OneLoad : loadTypesStarted(a, EmptyFile)
  \/ \E a \in OneLoad : loadTypesResolved(a)

SpecPreview == Init /\ [][NextPreview]_vars

\* SpecMapping: the CSV file is selected and analyzed, fields are excluded,
\* included and given types, and one run reads the mapping
NextMapping ==
  \/ \E a \in TwoLoads : selectImportFileName(a, CsvFile)
  \/ \E a \in TwoLoads : selectImportFileNameDetected(a)
  \/ \E a \in TwoLoads : loadTypes(a)
  \/ \E a \in TwoLoads : loadTypesStarted(a, EmptyFile)
  \/ \E a \in TwoLoads : loadTypesResolved(a)
  \/ \E path \in FieldPaths : toggleIncludeField(path)
  \/ \E path \in FieldPaths, bsonType \in BsonTypes : setFieldType(path, bsonType)
  \/ \E r \in OneRun : startImport(r, EmptyFile)
  \/ \E r \in OneRun : startImportStarted(r, TRUE)
  \/ \E r \in OneRun : startImportResolved(r)

SpecMapping == Init /\ [][NextMapping]_vars

\* SpecDropCollection: the drop-collection store is activated and the
\* application registry emits its two events, in any order and number
NextDropCollection ==
  \/ onActivated
  \/ \E databaseName \in DatabaseNames, collectionName \in CollectionNames :
       emitOpenDropCollection(databaseName, collectionName)
  \/ \E error \in ConnectErrors, dataService \in DataServices :
       emitDataServiceConnected(error, dataService)

SpecDropCollection == Init /\ [][NextDropCollection]_vars

\* SpecEmit: two runs, each on a file of MaxDocs documents, while data
\* services are connected, replaced and disconnected
TwoRuns == {1, 2}
NextEmit ==
  \/ \E ds \in ImportDataServices : DataServiceConnected(ds)
  \/ DataServiceDisconnected
  \/ \E r \in TwoRuns : startImport(r, MaxDocs)
  \/ \E r \in TwoRuns : startImportStarted(r, TRUE)
  \/ \E r \in TwoRuns, ok \in BOOLEAN : ImportDocument(r, ok, FALSE)
  \/ \E r \in TwoRuns : startImportResolved(r)
  \/ \E r \in TwoRuns, hasResult \in BOOLEAN : startImportRejected(r, "open", hasResult)
  \/ cancelImport

SpecEmit == Init /\ [][NextEmit]_vars

\* SpecOverlap: the CSV file is selected and its delimiter set, a second
\* load starting while the first is still under way or after it
NextOverlap ==
  \/ \E a \in TwoLoads : selectImportFileName(a, CsvFile)
  \/ \E a \in TwoLoads : selectImportFileNameDetected(a)
  \/ \E a \in TwoLoads, d \in Delimiters : setDelimiter(a, d)
  \/ \E a \in TwoLoads : loadTypes(a)
  \/ \E a \in TwoLoads : loadTypesStarted(a, MaxChunks)
  \/ \E a \in TwoLoads : analyzeChunk(a, FALSE)
  \/ \E a \in TwoLoads : loadTypesResolved(a)

SpecOverlap == Init /\ [][NextOverlap]_vars

\* SpecOpen: the modal is opened for one namespace or another, before,
\* during and after the write runs of an empty file
NextOpen ==
  \/ \E namespace \in Namespaces : openImportIn(namespace)
  \/ closeInProgressMessage
  \/ \E r \in TwoRuns : startImport(r, EmptyFile)
  \/ \E r \in TwoRuns : startImportStarted(r, TRUE)
  \/ \E r \in TwoRuns : startImportResolved(r)
  \/ \E r \in TwoRuns, hasResult \in BOOLEAN : startImportRejected(r, "open", hasResult)
  \/ cancelImport

SpecOpen == Init /\ [][NextOpen]_vars

\* SpecAtlasLogin: the Atlas login store, its thunks invoked in any order
\* and their service calls settling at any time
NextAtlasLogin ==
  \/ \E i \in Attempts : signIn(i)
  \/ \E i \in Attempts, userInfo \in AtlasUsers : signInResolved(i, userInfo)
  \/ \E i \in Attempts : signInRejected(i)
  \/ \E j \in UserInfoCalls : getUserInfo(j)
  \/ \E j \in UserInfoCalls, userInfo \in AtlasUsers : getUserInfoResolved(j, userInfo)
  \/ \E j \in UserInfoCalls : getUserInfoRejected(j)
  \/ signOut
  \/ \E ok \in BOOLEAN : signOutSettled(ok)
  \/ \E type \in {"AtlasServiceSignedOut", "AtlasServiceTokenRefreshFailed"} :
       atlasServiceEvent(type)
  \/ cancelAtlasLoginAttempt

SpecAtlasLogin == Init /\ [][NextAtlasLogin]_vars

\* ------------------------------------------------------------- properties
Ended == {"finished", "failed", "threw"}

TerminalStatus == {COMPLETED, CANCELED, FAILED}

WriteRunsActive == {r \in Runs : run[r].pc = "importing"}

AnalyzerRunsActive == {a \in Loads : load[a].pc = "analyzing"}

\* C1: a run that was importing, with status STARTED, when cancelImport was
\* invoked ends by resolving with aborted = true, and the status its end
\* leaves is CANCELED (not COMPLETED, not FAILED, and nothing is thrown).
C1_CancelEndsCanceled ==
  [][\A r \in Runs :
       (run[r].cancelSeen /\ run[r].pc = "importing" /\ run'[r].pc # "importing")
         => /\ run'[r].pc = "finished"
            /\ run'[r].aborted
            /\ importData'.status = CANCELED]_vars

\* C2: once the status is COMPLETED, CANCELED or FAILED, only OPEN (a new
\* session) changes it.
C2_TerminalStatusStays ==
  [][(importData.status \in TerminalStatus
        /\ importData'.status # importData.status)
       => importData' = ReduceOPEN(importData)]_vars

\* C3: while a write run is importing, no other run enters its importing
\* phase (no second STARTED) and the handle held in state is not replaced by
\* another run's; so at most one write run is active.
C3_SingleWriteRun ==
  [][(WriteRunsActive # {})
       => /\ \A r \in Runs : run[r].pc = "setup" => run'[r].pc = "setup"
          /\ importData'.abortController \in {importData.abortController, NoHandle}
          /\ Cardinality(WriteRunsActive) <= 1]_vars

\* C4: two analyzer runs whose signals are not aborted are never active at
\* the same time.
C4_SingleAnalyzerRun ==
  Cardinality({a \in AnalyzerRunsActive : ~load[a].aborted}) <= 1

\* DATA_SERVICE_DISCONNECTED arrives while an import is running
DisconnectedWhileRunning ==
  /\ DataServiceDisconnected
  /\ importData.status = STARTED
  /\ WriteRunsActive # {}

\* what the disconnection does to the handles and the modal
DisconnectAbortsAndCloses ==
  /\ \A r \in Runs : importData.abortController = r => run'[r].aborted
  /\ \A a \in Loads : importData.analyzeAbortController = a => load'[a].aborted
  /\ importData'.abortController = NoHandle
  /\ importData'.analyzeAbortController = NoHandle
  /\ ~importData'.isOpen

\* C5 (as claimed): on DATA_SERVICE_DISCONNECTED during a running import both
\* handles held in state are aborted and cleared, the modal is closed and the
\* status is no longer STARTED.
C5_DisconnectReturnsToIdle ==
  [][DisconnectedWhileRunning
       => DisconnectAbortsAndCloses /\ importData'.status # STARTED]_vars

\* C5 (amended): on DATA_SERVICE_DISCONNECTED during a running import both
\* handles held in state are aborted and cleared and the modal is closed; the
\* disconnection itself leaves the status as it was, STARTED (nothing else of
\* the state changes), and the status becomes CANCELED when the aborted run
\* ends, which it does by FINISHED with aborted = true.
C5_DisconnectKeepsStatus ==
  [][/\ DisconnectedWhileRunning
        => /\ DisconnectAbortsAndCloses
           /\ importData'.status = STARTED
           /\ importData' = [importData EXCEPT !.abortController = NoHandle,
                                               !.analyzeAbortController = NoHandle,
                                               !.isOpen = FALSE]
     /\ \A r \in Runs :
          (run[r].aborted /\ run[r].pc = "importing" /\ run'[r].pc # "importing")
            => run'[r].pc = "finished" /\ importData'.status = CANCELED]_vars

\* C5 witness: a run and an analysis, both still in flight and both aborted
\* without any cancelImport, their handles gone from state, status STARTED
C5_Witness ==
  \E r \in Runs, a \in Loads :
    /\ run[r].pc = "importing" /\ run[r].aborted /\ ~run[r].cancelSeen
    /\ load[a].pc = "analyzing" /\ load[a].aborted
    /\ importData.status = STARTED
    /\ importData.abortController = NoHandle
    /\ importData.analyzeAbortController = NoHandle
    /\ ~importData.isOpen

\* the creation of the run's error log failed (its error is the first reported)
LogSetupFailed(r) ==
  run[r].reported # <<>> /\ Head(run[r].reported) = SetupError

C7_LogClosedAtEnd ==
  \A r \in Runs : run[r].pc \in Ended => run[r].log # "open"

\* C7 witness: the failure handler threw, and the log it had opened is closed
C7_Witness ==
  \E r \in Runs : run[r].pc = "threw" /\ run[r].log = "closed"

Min(a, b) == IF a < b THEN a ELSE b

\* C8: the in-memory errors of a run are at most 5, namely the first errors
\* reported to it (the setup error included), in order; so are the errors
\* FINISHED leaves in state.
C8_FirstFiveErrors ==
  /\ \A r \in Runs :
       /\ Len(run[r].errors) <= MaxErrorsInMemory
       /\ run[r].errors =
            SubSeq(run[r].reported, 1, Min(Len(run[r].reported), MaxErrorsInMemory))
       /\ run[r].pc = "finished" => importData.errors = run[r].errors
  /\ Len(importData.errors) <= MaxErrorsInMemory

\* C8 witness: more than 5 errors were reported, the setup error first, and
\* FINISHED left exactly the first 5 in state
C8_Witness ==
  \E r \in Runs :
    /\ run[r].pc = "finished"
    /\ Len(run[r].reported) > MaxErrorsInMemory
    /\ Head(run[r].reported) = SetupError
    /\ Len(importData.errors) = MaxErrorsInMemory
    /\ Head(importData.errors) = SetupError

Range(f) == {f[i] : i \in DOMAIN f}

\* cancelImport is invoked while an analysis' handle is held and no write
\* run's is
CancelWhileOnlyAnalyzing ==
  /\ cancelImport
  /\ importData.analyzeAbortController # NoHandle
  /\ importData.abortController = NoHandle

\* C10: a cancelImport while only an analysis' handle is held aborts that
\* analysis and clears its handle; CANCELED is not dispatched, and status,
\* abortController, errors and the selected file stay as they were (the only
\* other field written is analyzeError, cleared).
C10_CancelOnlyAnalyzer ==
  [][CancelWhileOnlyAnalyzing
       => /\ load'[importData.analyzeAbortController].aborted
          /\ "CANCELED" \notin Range(cancelImportDispatches(importData))
          /\ importData' = [importData EXCEPT !.analyzeAbortController = NoHandle,
                                              !.analyzeError = ""]
          /\ \A r \in Runs : run'[r].aborted = run[r].aborted]_vars

\* C10 witness: the modal is open on a selected file whose analysis is still
\* in flight, aborted, its handle cleared, and no write run exists
C10_Witness ==
  \E a \in Loads :
    /\ load[a].pc = "analyzing" /\ load[a].aborted
    /\ importData.analyzeAbortController = NoHandle
    /\ importData.abortController = NoHandle
    /\ importData.isOpen
    /\ importData.fileName = CsvFile
    /\ WriteRunsActive = {}

\* C9: the last progress update a run's importer, or an analysis' analyzer,
\* issued before the run ended is delivered: the throttled callback is
\* invoked with it, at the latest when the timer of the throttle expires.
C9_LastProgressDelivered ==
  /\ \A r \in Runs :
       (run[r].pc \in Ended /\ run[r].docsProcessed >= 1)
         ~> (run[r].progress.delivered = run[r].docsProcessed)
  /\ \A a \in Loads :
       (load[a].pc = "done" /\ load[a].bytesProcessed >= 1)
         ~> (load[a].progress.delivered = load[a].bytesProcessed)

\* C9 witness: the importer rejected and the analysis ended while their last
\* updates were held back by the throttle, and both were delivered afterwards
C9_Witness ==
  \E r \in Runs, a \in Loads :
    /\ run[r].pc = "failed" /\ run[r].lateProgress
    /\ run[r].progress.delivered = run[r].docsProcessed
    /\ load[a].pc = "done" /\ load[a].lateProgress
    /\ load[a].progress.delivered = load[a].bytesProcessed

\* the signals of the write runs and of the analyses
Signals(rs, ls) ==
  <<[r \in Runs |-> rs[r].aborted], [a \in Loads |-> ls[a].aborted]>>

\* a further cancelImport, invoked in the state a step has led to, changes
\* neither the import state nor any signal
FurtherCancelChangesNothing ==
  /\ Dispatch(importData', cancelImportDispatches(importData')) = importData'
  /\ Signals(AbortRun(run', importData'.abortController),
             AbortLoad(load', importData'.analyzeAbortController))
       = Signals(run', load')

\* a further DATA_SERVICE_DISCONNECTED, in the state a step has led to,
\* changes neither the import state nor any signal
FurtherDisconnectChangesNothing ==
  /\ ReduceDATA_SERVICE_DISCONNECTED(importData') = importData'
  /\ Signals(AbortRun(run', importData'.abortController),
             AbortLoad(load', importData'.analyzeAbortController))
       = Signals(run', load')

\* a disconnection after the cancelImport of this step leads to the state and
\* the signals a disconnection alone would have led to
DisconnectAfterCancelIsDisconnect ==
  /\ ReduceDATA_SERVICE_DISCONNECTED(importData')
       = ReduceDATA_SERVICE_DISCONNECTED(importData)
  /\ Signals(AbortRun(run', importData'.abortController),
             AbortLoad(load', importData'.analyzeAbortController))
       = Signals(AbortRun(run, importData.abortController),
                 AbortLoad(load, importData.analyzeAbortController))

\* a write run is in progress and its handle is the one held in state
ImportRunning ==
  /\ importData.status = STARTED
  /\ importData.abortController \in WriteRunsActive

NoHandleHeld ==
  /\ importData.abortController = NoHandle
  /\ importData.analyzeAbortController = NoHandle

\* C12: with neither handle held in state, cancelImport dispatches no action,
\* aborts nothing and leaves the import state as it is.
C12_CancelWithoutHandles ==
  /\ [](NoHandleHeld
         => /\ cancelImportDispatches(importData) = <<>>
            /\ Dispatch(importData, cancelImportDispatches(importData)) = importData
            /\ AbortRun(run, importData.abortController) = run
            /\ AbortLoad(load, importData.analyzeAbortController) = load)
  /\ [][(NoHandleHeld /\ cancelImport)
          => /\ importData' = importData
             /\ Signals(run', load') = Signals(run, load)]_vars

\* C12 witness: a run has ended by FINISHED with errors, which cleared its
\* handle; no handle is held, and the state is not the initial one
C12_Witness ==
  /\ NoHandleHeld
  /\ importData.status = COMPLETED
  /\ importData.errors # <<>>
  /\ importData.analyzeStatus = COMPLETED
  /\ \E r \in Runs : run[r].pc = "finished"

\* C13: openImport while the status is not STARTED leaves the import state
\* equal to INITIAL_STATE with isOpen = true, whatever it was before, and
\* touches nothing else.
C13_OpenResets ==
  [][(openImport /\ importData.status # STARTED)
       => /\ importData' = [INITIAL_STATE EXCEPT !.isOpen = TRUE]
          /\ UNCHANGED <<run, load>>]_vars

\* C13 witness: the state is INITIAL_STATE with the modal open, after a
\* session in which a file was analyzed and a write run finished
C13_Witness ==
  /\ importData = [INITIAL_STATE EXCEPT !.isOpen = TRUE]
  /\ \E r \in Runs : run[r].pc = "finished" /\ run[r].fileName = CsvFile
  /\ \E a \in Loads : load[a].pc = "done"

\* C14: at STARTED the handle put in state is the run's own, new and not
\* aborted, whatever handle was held before; FINISHED and FAILED release the
\* handle from state.
C14_FreshHandleReleased ==
  [][\A r \in Runs :
       /\ (run[r].pc = "setup" /\ run'[r].pc = "importing")
            => /\ importData'.abortController = r
               /\ importData.abortController # r
               /\ ~run'[r].aborted
               /\ importData'.status = STARTED
       /\ (run[r].pc = "importing" /\ run'[r].pc \in {"finished", "failed"})
            => importData'.abortController = NoHandle]_vars

\* C14 witness: a run that was cancelled has finished, and a later run holds
\* its own handle, not aborted
C14_Witness ==
  \E q \in Runs, r \in Runs :
    /\ q < r
    /\ run[q].pc = "finished" /\ run[q].aborted
    /\ run[r].pc = "importing" /\ ~run[r].aborted
    /\ importData.abortController = r
    /\ importData.status = STARTED

\* C15: a run that has ended has emitted exactly one 'Import Completed'
\* event, and a run that has not ended has emitted none.
C15_OneSummary ==
  \A r \in Runs :
    run[r].tracked = IF run[r].pc \in Ended THEN 1 ELSE 0

\* the errors of documents reported to a run
DocumentErrors(r) == SelectSeq(run[r].reported, LAMBDA e : e >= 1)

\* C16: a run started with stopOnErrors = false that has begun to process
\* documents and is not cancelled does not end before every document has
\* been attempted; it then ends by FINISHED with status COMPLETED, the errors
\* of its documents among the errors it hands over (the first 5).
C16_ErrorsDoNotStopRun ==
  [][\A r \in Runs :
       (/\ run[r].pc = "importing" /\ run'[r].pc # "importing"
        /\ ~run[r].stopOnErrors /\ ~run[r].aborted
        /\ run[r].docsProcessed >= 1)
         => /\ run'[r].pc = "finished"
            /\ run'[r].docsProcessed = run[r].nDocs
            /\ run'[r].docsProcessed = run'[r].docsWritten + Len(DocumentErrors(r))
            /\ importData'.status = COMPLETED
            /\ importData'.errors
                 = SubSeq(run[r].reported, 1,
                          Min(Len(run[r].reported), MaxErrorsInMemory))]_vars

\* C16 witness: a run without stopOnErrors has ended COMPLETED although
\* documents failed, every document attempted
C16_Witness ==
  \E r \in Runs :
    /\ run[r].pc = "finished" /\ ~run[r].stopOnErrors /\ ~run[r].aborted
    /\ Len(DocumentErrors(r)) >= 2
    /\ run[r].docsWritten >= 1
    /\ run[r].docsProcessed = run[r].nDocs
    /\ importData.status = COMPLETED
    /\ importData.errors # <<>>

\* C17: the run takes stopOnErrors as the option stands when it starts.
\* Under stopOnErrors every document processed was written; at the first
\* document that fails the importer rejects, the counts stay as they are
\* (written = processed = the documents before the failing one), and after
\* the run has ended no further document is processed or written.
C17_StopAtFirstError ==
  [][\A r \in Runs :
       /\ (run[r].pc = "idle" /\ run'[r].pc = "setup")
            => run'[r].stopOnErrors = importData.stopOnErrors
       /\ (run[r].stopOnErrors /\ run[r].pc = "importing")
            => /\ run[r].docsWritten = run[r].docsProcessed
               /\ DocumentErrors(r)' = <<>>
       /\ (run[r].pc = "importing" /\ run'[r].rejectCause = "document")
            => /\ run[r].stopOnErrors
               /\ run'[r].pc \in {"failed", "threw"}
               /\ run[r].docsProcessed < run[r].nDocs
               /\ run'[r].docsWritten = run[r].docsWritten
               /\ run'[r].docsProcessed = run[r].docsProcessed
       /\ run[r].pc \in Ended
            => /\ run'[r].docsWritten = run[r].docsWritten
               /\ run'[r].docsProcessed = run[r].docsProcessed]_vars

\* C17 witness: under stopOnErrors two documents were written, the third
\* failed and ended the run, and documents after it were never processed
C17_Witness ==
  \E r \in Runs :
    /\ run[r].pc = "failed" /\ run[r].stopOnErrors
    /\ run[r].rejectCause = "document"
    /\ run[r].docsWritten = 2 /\ run[r].docsProcessed = 2
    /\ run[r].nDocs >= 4
    /\ importData.status = FAILED

\* C18: the documents written never exceed the documents processed, which
\* never exceed the documents of the file.
C18_WrittenAtMostProcessed ==
  \A r \in Runs :
    /\ run[r].docsWritten <= run[r].docsProcessed
    /\ run[r].docsProcessed <= run[r].nDocs

\* C18 witness: a cancelled run has ended with some documents written, more
\* processed, and not all of the file
C18_Witness ==
  \E r \in Runs :
    /\ run[r].pc = "finished" /\ run[r].aborted
    /\ 0 < run[r].docsWritten
    /\ run[r].docsWritten < run[r].docsProcessed
    /\ run[r].docsProcessed < run[r].nDocs


\* the names of the fields of a document
FieldNames(doc) == {doc[i][1] : i \in DOMAIN doc}

\* a run has submitted a document to the backing store
HasSubmitted(r) == run[r].docsWritten > 0

\* C19: a JSON import honors field exclusion: no field the user has excluded
\* appears in a document the run submits to the backing store.
C19_ExcludedFieldNotSubmitted ==
  \A r \in Runs :
    (run[r].fileType = "json" /\ HasSubmitted(r)) =>
      \A i \in DOMAIN run[r].exclude :
        run[r].exclude[i] \notin FieldNames(SubmittedDocument(run[r]))

\* the fields of the source row whose value is the empty string and which
\* the run was not told to leave out
BlankFields(r) ==
  LET source == SourceDocument(r.fileType, r.fileName, r.delimiter)
      excluded == {r.exclude[i] : i \in DOMAIN r.exclude}
      given == {r.fields[i][1] : i \in DOMAIN r.fields}
  IN {source[i][1] : i \in {j \in DOMAIN source :
        /\ source[j][2] = ""
        /\ source[j][1] \notin excluded
        /\ r.fileType = "csv" => source[j][1] \in given}}

RunEnds(r) == run[r].pc = "importing" /\ run'[r].pc \in Ended

\* C28: a run reports exactly one terminal outcome: failed if the importer
\* rejected; else cancelled if the result is aborted; else
\* completed-with-errors if an error was recorded; else completed.  The
\* status stored is FAILED, CANCELED, COMPLETED, COMPLETED.
C28_OneOutcome ==
  [][\A r \in Runs : RunEnds(r) =>
       LET outcome == IF ~ImporterResolves(r) THEN "failed"
                      ELSE IF run[r].aborted THEN "cancelled"
                      ELSE IF run[r].errors # <<>> THEN "completed-with-errors"
                      ELSE "completed"
       IN /\ run'[r].toasts = <<outcome>>
          /\ importData'.status =
               CASE outcome = "failed" -> FAILED
                 [] outcome = "cancelled" -> CANCELED
                 [] OTHER -> COMPLETED]_vars

\* C29: when the importer's promise rejects, with or without a result on the
\* error, FAILED is dispatched: status FAILED, errors the single thrown
\* error, abortController cleared.
C29_RejectionDispatchesFailed ==
  [][\A r \in Runs : (RunEnds(r) /\ ~ImporterResolves(r)) =>
       /\ importData'.status = FAILED
       /\ importData'.errors = <<ThrownError>>
       /\ importData'.abortController = NoHandle]_vars

\* C30: once the status is STARTED and the importer's promise settles, the
\* status becomes COMPLETED, CANCELED or FAILED.
C30_StartedEnds ==
  (importData.status = STARTED) ~> (importData.status \in TerminalStatus)

\* a selection that cannot succeed: the file does not exist, or its type is
\* not recognized
SelectFails(a) ==
  /\ load[a].pc = "selecting"
  /\ \/ ~checkFileExists(load[a].selected)
     \/ guessFileType(load[a].selected).type = "unknown"

\* C23: when the selected file does not exist or its type is unknown, the
\* selection ends with FILE_SELECT_ERROR alone: errors is that one error,
\* nothing else of the state changes (fileName, fileType, fields, status),
\* and no preview or analysis is started.
C23_SelectErrorOnly ==
  [][\A a \in Loads : (SelectFails(a) /\ load'[a] # load[a]) =>
       /\ importData' = [importData EXCEPT !.errors = <<SelectError>>]
       /\ load' = [load EXCEPT ![a].pc = "done"]
       /\ run' = run]_vars

\* C23 witness: the selection of a missing file has failed after the CSV
\* file was selected and previewed
C23_Witness ==
  /\ \E a \in Loads : load[a].pc = "done" /\ load[a].selected = MissingFile
  /\ importData.errors = <<SelectError>>
  /\ importData.fileName = CsvFile
  /\ importData.fileType = "csv"
  /\ importData.fields # <<>>

\* the mapping and the exclusions follow the fields: the mapping startImport
\* builds is the (path, type) of the checked fields, exclude is the paths of
\* the unchecked ones
FieldMappingConsistent(state) ==
  LET mapping == startImportFields(state.transform, state.exclude)
      fs == {state.fields[i] : i \in DOMAIN state.fields}
  IN /\ {mapping[i] : i \in DOMAIN mapping} =
          {<<f.path, f.type>> : f \in {g \in fs : g.checked}}
     /\ {state.exclude[i] : i \in DOMAIN state.exclude} =
          {f.path : f \in {g \in fs : ~g.checked}}

\* loadTypes dispatches SET_PREVIEW: the analysis resolved and held the
\* fields that were listed
SetPreviewDispatched(a) ==
  /\ loadTypesResolved(a)
  /\ load[a].listFile = load[a].fileName
  /\ load[a].listDelimiter = load[a].delimiter

\* C26: after each SET_PREVIEW, TOGGLE_INCLUDE_FIELD and SET_FIELD_TYPE the
\* mapping handed to the CSV importer is exactly the (path, type) of the
\* checked fields and exclude is exactly the unchecked paths; a run that
\* starts reads that mapping.
C26_MappingFollowsFields ==
  /\ [][(\/ \E a \in Loads : SetPreviewDispatched(a)
         \/ \E path \in FieldPaths : toggleIncludeField(path)
         \/ \E path \in FieldPaths, bsonType \in BsonTypes :
              setFieldType(path, bsonType))
        => FieldMappingConsistent(importData')]_vars
  /\ [][\A r \in Runs : (run[r].pc = "idle" /\ run'[r].pc = "setup") =>
          run'[r].fields =
            startImportFields(importData.transform, importData.exclude)]_vars

\* C26 witness: a run has read a mapping that holds one field, with a type
\* the user gave it, the other field being excluded
C26_Witness ==
  /\ FieldMappingConsistent(importData)
  /\ importData.exclude = <<"x">>
  /\ \E r \in Runs : run[r].pc # "idle" /\ run[r].fields = << <<"y", "number">> >>

\* C27: setFieldType on an existing field leaves it checked, with the type
\* given, out of exclude and in transform; the other fields keep their
\* checked flag and their type.
C27_SetFieldTypeChecks ==
  [][\A path \in FieldPaths, bsonType \in BsonTypes :
       (/\ setFieldType(path, bsonType)
        /\ \E i \in DOMAIN importData.fields : importData.fields[i].path = path)
       =>
       /\ DOMAIN importData'.fields = DOMAIN importData.fields
       /\ \A i \in DOMAIN importData.fields :
            importData'.fields[i] =
              IF importData.fields[i].path = path
                THEN [importData.fields[i] EXCEPT !.checked = TRUE,
                                                  !.type = bsonType]
                ELSE importData.fields[i]
       /\ \A i \in DOMAIN importData'.exclude : importData'.exclude[i] # path
       /\ \E i \in DOMAIN importData'.transform :
            importData'.transform[i] = <<path, bsonType>>]_vars

\* C27 witness: a field has the type the user gave it and is checked, the
\* other field is excluded with the type that was detected
C27_Witness ==
  /\ Len(importData.fields) = 2
  /\ importData.fields[1].type = "string" /\ importData.fields[1].checked
  /\ importData.fields[2].type = "detected" /\ ~importData.fields[2].checked
  /\ importData.exclude = <<importData.fields[2].path>>
  /\ importData.transform = << <<importData.fields[1].path, "string">> >>

\* the analysis of load a held the fields that were listed for it
ListedAsAnalyzed(a) ==
  /\ load[a].listFile = load[a].fileName
  /\ load[a].listDelimiter = load[a].delimiter

\* C24: aborting an analysis in flight does not make it fail.  The aborted
\* analyzer resolves, its types are applied to the fields by SET_PREVIEW and
\* analyzeStatus becomes COMPLETED; skipCSVAnalyze and cancelImport
\* themselves do not touch analyzeStatus; and whether a resolved analysis
\* ends by ANALYZE_FAILED does not depend on its having been aborted.
C24_AbortedAnalysisCompletes ==
  /\ [][\A a \in Loads : (loadTypesResolved(a) /\ load[a].aborted) =>
          /\ ListedAsAnalyzed(a) =>
               /\ importData'.analyzeStatus = COMPLETED
               /\ importData'.previewLoaded
               /\ importData'.fields =
                    TypedFields(PreviewFields(load[a].listFile,
                                              load[a].listDelimiter))
          /\ (importData'.analyzeStatus = FAILED) = ~ListedAsAnalyzed(a)]_vars
  /\ [][(skipCSVAnalyze \/ cancelImport) =>
          /\ importData'.analyzeStatus = importData.analyzeStatus
          /\ importData'.analyzeError = importData.analyzeError]_vars

\* C24 witness: the only analysis there was has been aborted by the user and
\* has completed with a partial result, its types on the fields
C24_Witness ==
  /\ load[1].pc = "done" /\ load[1].aborted
  /\ \A a \in Loads \ {1} : load[a].pc = "idle"
  /\ importData.analyzeStatus = COMPLETED
  /\ importData.analyzeResult = AnalyzeResult(load[1])
  /\ importData.previewLoaded
  /\ importData.fields # <<>>
  /\ \A i \in DOMAIN importData.fields : importData.fields[i].type = "detected"

\* listCSVFields has resolved for load a, with a header
Listed(a) == load[a].result.headerFields # <<>>

\* the distinct names of a sequence, in the order of their first occurrence
RECURSIVE Distinct(_)
Distinct(names) ==
  IF names = <<>> THEN <<>>
  ELSE LET front == Distinct(SubSeq(names, 1, Len(names) - 1))
           last == names[Len(names)]
       IN IF \E i \in DOMAIN front : front[i] = last THEN front
          ELSE Append(front, last)

\* C21: the grouping of a CSV header yields one field per distinct
\* normalized name, in the order of first occurrence (so paths are unique),
\* isArray telling the names that end with []; grouping the same header
\* again yields the same fields.
C21_OneFieldPerName ==
  \A a \in Loads : Listed(a) =>
    LET headerFields == load[a].result.headerFields
        names == [i \in DOMAIN headerFields |->
                    csvHeaderNameToFieldName(headerFields[i])]
    IN /\ [j \in DOMAIN load[a].fields |-> load[a].fields[j].path] = Distinct(names)
       /\ \A j \in DOMAIN load[a].fields :
            load[a].fields[j].isArray = EndsWithBrackets(load[a].fields[j].path)
       /\ GroupHeader(headerFields).fields = load[a].fields

\* the columns of a header whose normalized name is path, in column order
ColumnsOf(headerFields, path) ==
  SelectSeq([i \in DOMAIN headerFields |-> i],
            LAMBDA i : csvHeaderNameToFieldName(headerFields[i]) = path)

\* loadCSVPreviewDocs has grouped the header of load a into fields
Grouped(a) == load[a].fields # <<>>

\* C22: where the header was grouped into fields, the grouped preview has
\* one row per preview row and, in each, one cell per field in field order:
\* the cell itself for a field of one column, the non-blank cells of its
\* columns, in column order, for a field of several (as a JSON array for an
\* array field, joined by ", " otherwise); blank cells make nothing fail.
C22_OneCellPerField ==
  \A a \in Loads : Grouped(a) =>
    LET headerFields == load[a].result.headerFields
        preview == load[a].result.preview
    IN /\ DOMAIN load[a].values = DOMAIN preview
       /\ \A i \in DOMAIN preview :
            /\ DOMAIN load[a].values[i] = DOMAIN load[a].fields
            /\ \A j \in DOMAIN load[a].fields :
                 LET columns == ColumnsOf(headerFields, load[a].fields[j].path)
                     members == [k \in DOMAIN columns |-> preview[i][columns[k]]]
                     nonBlank == SelectSeq(members, LAMBDA cell : cell # "")
                 IN load[a].values[i][j] =
                      IF Len(columns) = 1 THEN members[1]
                      ELSE IF load[a].fields[j].isArray THEN JSONStringify(nonBlank)
                      ELSE Join(nonBlank, ", ")

\* C22 witness: of the two columns of tags[] the blank one is skipped, the
\* single column x is shown as it is
C22_Witness ==
  \E a \in Loads :
    /\ load[a].result.headerFields = <<"tags[0]", "x", "tags[1]">>
    /\ load[a].result.preview = << <<"", "a", "b">> >>
    /\ load[a].values = << <<"[\n  \"b\"\n]", "a">> >>
    /\ importData.values = load[a].values

\* C25: on an activated store, after 'open-drop-collection' is emitted with
\* (databaseName, collectionName) the store is visible and holds exactly that
\* collection name and that database name, and after
\* 'data-service-connected' is emitted it holds exactly the emitted data
\* service; neither event touches what the other one set
C25_StoreHoldsEmitted ==
  /\ [][\A databaseName \in DatabaseNames, collectionName \in CollectionNames :
         (dropCollection.activated
            /\ emitOpenDropCollection(databaseName, collectionName))
         => /\ dropCollection'.isVisible
            /\ dropCollection'.name = collectionName
            /\ dropCollection'.databaseName = databaseName
            /\ dropCollection'.dataService = dropCollection.dataService]_vars
  /\ [][\A error \in ConnectErrors, dataService \in DataServices :
         (dropCollection.activated
            /\ emitDataServiceConnected(error, dataService))
         => /\ dropCollection'.dataService.dataService = dataService
            /\ dropCollection'.name = dropCollection.name
            /\ dropCollection'.databaseName = dropCollection.databaseName
            /\ dropCollection'.isVisible = dropCollection.isVisible]_vars

\* the store of the test: activated, 'data-service' connected, and the drop
\* of testing.test opened
C25_Witness ==
  /\ dropCollection.activated
  /\ dropCollection.isVisible
  /\ dropCollection.name = "test"
  /\ dropCollection.databaseName = "testing"
  /\ dropCollection.dataService.dataService = "data-service"

\* C31: 'import-finished' is emitted at most once per run, only by the step
\* that dispatches FINISHED for the run, never for a run whose promise
\* rejected, and never when the data service in the state at that step is
\* not the one the run started with
C31_EmittedOnceAfterFinished ==
  /\ [](\A r \in Runs :
          /\ run[r].emitted <= 1
          /\ run[r].emitted = 1 => run[r].pc = "finished")
  /\ [][\A r \in Runs : run'[r].emitted # run[r].emitted
          => /\ run[r].pc = "importing"
             /\ run'[r].pc = "finished"
             /\ importData' = ReduceFINISHED(importData, run[r].aborted, run[r].errors)
             /\ run[r].dataService = rootDataService
             /\ rootDataService' = rootDataService]_vars

\* the first run finished on the data service it started with and emitted
\* the event; the second started on a data service, finished on another (or
\* on none) and did not
C31_Witness ==
  /\ run[1].pc = "finished" /\ run[1].emitted = 1
  /\ run[2].pc = "finished" /\ run[2].emitted = 0
  /\ run[2].dataService \in ImportDataServices

\* C32: whenever a write run is importing and its signal is not aborted, the
\* handle held in state is that run's, so that cancelImport reaches it
C32_RunningHandleHeld ==
  \A r \in Runs :
    (run[r].pc = "importing" /\ ~run[r].aborted) => importData.abortController = r

\* C33: whenever an analyzer run is analyzing and its signal is not aborted,
\* the analyzer handle held in state is that run's
C33_AnalyzingHandleHeld ==
  \A a \in Loads :
    (load[a].pc = "analyzing" /\ ~load[a].aborted)
      => importData.analyzeAbortController = a

\* every load has settled
LoadsSettled == \A a \in Loads : load[a].pc \in {"idle", "done"}

\* the paths of the fields, in order
Paths(fields) == [i \in DOMAIN fields |-> fields[i].path]

\* C34: once all loads have settled, the fields and preview values in state
\* are those of the selected file read with the current delimiter, and the
\* analyze result is that of the selected file and current delimiter
C34_SettledLoadsAreCurrent ==
  (LoadsSettled /\ importData.fields # <<>>)
    => LET listed == listCSVFields(importData.fileName, importData.delimiter)
           grouped == GroupHeader(listed.headerFields)
       IN /\ Paths(importData.fields) = Paths(grouped.fields)
          /\ importData.values
               = PreviewValues(grouped.fields, grouped.fieldMap, listed.preview)
          /\ importData.analyzeResult
               \in {importData.fileName \o importData.delimiter \o suffix :
                      suffix \in {":partial", ":full"}}

\* C35: no progress update of a run is delivered after the run's end: no
\* in-progress toast after the outcome toast of a write run, no
\* ANALYZE_PROGRESS after the end of an analyzer run
C35_NoProgressAfterEnd ==
  /\ \A r \in Runs : ~run[r].lateProgress
  /\ \A a \in Loads : ~load[a].lateProgress

\* C36: openImport invoked while the status is STARTED only sets
\* isInProgressMessageOpen: the rest of the import state, the namespace, the
\* runs and the loads are left as they are
C36_OpenWhileStarted ==
  [][\A namespace \in Namespaces :
       (importData.status = STARTED /\ openImportIn(namespace))
         => /\ importData' = [importData EXCEPT !.isInProgressMessageOpen = TRUE]
            /\ ns' = ns
            /\ UNCHANGED <<run, load>>]_vars

\* the in-progress message is open over a running import that holds its
\* handle, the namespace being the one of an earlier opening
C36_Witness ==
  /\ importData.status = STARTED
  /\ importData.isInProgressMessageOpen
  /\ importData.abortController # NoHandle
  /\ ns \in Namespaces

\* the thunk invoked last found the store signing in or authenticated
InvokedWhileBusy(thunk) ==
  /\ atlasCalls.last.thunk = thunk
  /\ atlasCalls.last.status \in {"in-progress", "authenticated"}

\* the Atlas login thunks under way are as they were
SameAtlasCalls ==
  /\ atlasCalls'.signIn = atlasCalls.signIn
  /\ atlasCalls'.getUserInfo = atlasCalls.getUserInfo
  /\ atlasCalls'.signOut = atlasCalls.signOut

\* C37: signIn and getUserInfo invoked while the status is 'in-progress' or
\* 'authenticated' dispatch nothing, call no auth-service method and leave
\* the store as it is; and userInfo is non-null exactly when the status is
\* 'authenticated'
C37_BusyStoreIgnoresSignIn ==
  /\ [](\A thunk \in {"signIn", "getUserInfo"} :
          InvokedWhileBusy(thunk)
            => atlasCalls.last.dispatched = <<>> /\ ~atlasCalls.last.called)
  /\ []((atlasLogin.userInfo # NoUserInfo) <=> (atlasLogin.status = "authenticated"))
  /\ [][(atlasLogin.status \in {"in-progress", "authenticated"}
          /\ \/ \E i \in Attempts : signIn(i)
             \/ \E j \in UserInfoCalls : getUserInfo(j))
        => atlasLogin' = atlasLogin /\ SameAtlasCalls]_vars

\* signIn was invoked on the authenticated store, which is still
\* authenticated with its user, and no sign-in attempt is under way
C37_Witness ==
  /\ InvokedWhileBusy("signIn")
  /\ atlasCalls.last.status = "authenticated"
  /\ atlasLogin.status = "authenticated"
  /\ atlasLogin.userInfo \in AtlasUsers
  /\ \A i \in Attempts : atlasCalls.signIn[i].pc # "awaiting"

\* a sign-in attempt is under way and the store shows it
SigningIn(i) ==
  /\ atlasLogin.status = "in-progress"
  /\ atlasLogin.attemptId = i
  /\ atlasCalls.signIn[i].pc = "awaiting"

C39_AttemptIdOnlyInProgress ==
  /\ [](atlasLogin.status \in {"initial", "unauthenticated", "authenticated"}
          => atlasLogin.attemptId = NoAttempt)
  /\ [][(cancelAtlasLoginAttempt
          /\ \A i \in Attempts : atlasCalls.signIn[i].pc # "awaiting")
        => atlasLogin' = atlasLogin /\ SameAtlasCalls]_vars

====
